---- MODULE Spec2Model ----
(***************************************************************************)
(* Model of qodo-cover's response cache (RecordReplayManager and           *)
(* AICallerReplay) and of the validation of a generated test.              *)
(*                                                                         *)
(* Python values are modelled as follows.  A str is a TLA+ string.  A dict *)
(* is the sequence of its <<key, value>> items in insertion order, keys    *)
(* unique.  A hex digest and a path are sequences of their parts.  None is *)
(* the empty tuple <<>> (falsy in Python, as None is).  A file is either   *)
(* absent (not in the domain of files) or a record [kind, doc] describing  *)
(* the YAML text it holds.                                                 *)
(***************************************************************************)
EXTENDS Integers, Sequences, FiniteSets, TLC

VARIABLES
    env_TEST_NAME,   \* the TEST_NAME environment variable ("" when unset)
    test_file,       \* content of the test file on disk
    mgr,             \* the RecordReplayManager objects: record_mode, base_dir, files_hash
    dirs,            \* directories that exist under the responses folder
    files,           \* the response files: path -> YAML content
    last,            \* the last call made and what it returned
    recorded,        \* history: what record-mode calls were asked to store, per path and prompt
    pc,              \* position inside a record_response call that is in progress
    pending,         \* locals of the record_response call in progress
    state,           \* state of the validation attempt, "IDLE" between attempts
    candidate,       \* the candidate under validation: test code and insertion line
    original_content,\* test file content captured for rollback when the candidate is spliced in
    baseline,        \* aggregate coverage (percent) of the rolling baseline report
    run_tests_multiple_times, \* configured number of repetitions
    process,         \* the external test command: none, running, exited, killed
    runs,            \* this attempt: exit codes of the runs, in order (NoExitCode: terminated)
    outcome,         \* the outcome reported for the last finished attempt
    attempts,        \* number of candidates received in the session
    before,          \* history: test file content and baseline when the candidate was received
    run_pc,          \* position of CoverAgent.run
    iteration_count, \* the local iteration_count of CoverAgent.run
    config,          \* max_iterations, desired_coverage (percent), strict_coverage
    calls,           \* history: calls of init and finalize_test_generation, rounds started
    exit_status,     \* status of sys.exit, NoExitCode while the process has not exited
    report_dumped,   \* test_db.dump_to_report was called
    raised,          \* the exception that left validate_test or run, "" when none
    args,            \* vars(args): the parsed command line, attribute -> value
    toml_config,     \* get_settings().get('default'): the TOML defaults
    built,           \* what from_args_with_defaults returned or raised
    enable_retry,    \* AICaller.enable_retry
    model,           \* AICaller.model
    call_prompt,     \* the prompt dictionary passed to call_model
    stream,          \* the stream argument of call_model
    call_pc,         \* position of the call_model call
    attempt_number,  \* attempts of the decorated function made by this call
    completions,     \* history: the litellm.completion calls of this call and how each went
    messages,        \* the messages passed to the last litellm.completion call
    call_result,     \* what call_model returned or raised
    fs,              \* the file system seen by the CoverAgent constructor: path -> entry
    config_paths,    \* the path fields of the CoverAgentConfig given to the constructor
    agent,           \* the CoverAgent under construction and what its constructor created
    env_LOG_LEVEL,   \* the LOG_LEVEL environment variable
    loggers,         \* the logging module's registry: name -> level and handlers
    logger,          \* what the last get_logger call returned or raised
    coverage_report, \* the full coverage report: file -> covered and missed lines
    changed_lines,   \* the version-control diff: file -> changed line numbers
    diff_report,     \* the result of diff_coverage
    test_args,       \* the arguments of the Docker test harness
    container,       \* the Docker container of the harness: none, running, stopped, removed
    docker_pc,       \* position of run_test
    docker_exit      \* status of sys.exit in the harness, NoExitCode while it has not exited

\* the test file is shared: the cache digests it, validation rewrites it
cacheVars == <<env_TEST_NAME, mgr, dirs, files, last, recorded, pc, pending>>

valVars == <<state, candidate, original_content, baseline, run_tests_multiple_times,
             process, runs, outcome, attempts, before>>

loopVars == <<run_pc, iteration_count, config, calls, exit_status, report_dumped>>

runVars == <<run_pc, iteration_count, config, calls, exit_status, report_dumped, raised>>

cfgVars == <<args, toml_config, built>>

aiVars == <<enable_retry, model, call_prompt, stream, call_pc, attempt_number,
            completions, messages, call_result>>

\* the configuration builder and the model caller share nothing with the rest
agentVars == <<fs, config_paths, agent>>

logVars == <<env_LOG_LEVEL, loggers, logger>>

diffVars == <<coverage_report, changed_lines, diff_report>>

dockerVars == <<test_args, container, docker_pc, docker_exit>>

extVars == <<args, toml_config, built, enable_retry, model, call_prompt, stream,
             call_pc, attempt_number, completions, messages, call_result,
             fs, config_paths, agent, env_LOG_LEVEL, loggers, logger,
             coverage_report, changed_lines, diff_report,
             test_args, container, docker_pc, docker_exit>>

\* the session: the response cache, the validation attempt and CoverAgent.run
sessionVars == <<cacheVars, valVars, runVars, test_file>>

vars == <<env_TEST_NAME, test_file, mgr, dirs, files, last, recorded, pc, pending,
          state, candidate, original_content, baseline, run_tests_multiple_times,
          process, runs, outcome, attempts, before,
          run_pc, iteration_count, config, calls, exit_status, report_dumped, raised,
          args, toml_config, built, enable_retry, model, call_prompt, stream,
          call_pc, attempt_number, completions, messages, call_result,
          fs, config_paths, agent, env_LOG_LEVEL, loggers, logger,
          coverage_report, changed_lines, diff_report,
          test_args, container, docker_pc, docker_exit>>

-----------------------------------------------------------------------------
(* Bounds and input sets *)

\* at most this many entries are recorded over all response files
MaxEntries == 2

Managers == {"rec", "rep"}
BaseDir == "responses"
EnvNames == {"", "ci"}
\* the test file as its lines
TestContents == { <<"t0">>, <<"t0", "t1">> }
SourceContent == "src"
SourceParts == <<"app", "source.py">>
\* (response, prompt_tokens, completion_tokens) of a model call
Completions == { <<"r1", 10, 20>>, <<"r2", 20, 10>> }

\* {"system": s, "user": u} as built by PromptBuilder; the two user prompts
\* differ by one character
Prompts == { << <<"system", "s">>, <<"user", u>> >> : u \in {"a", "ab"} }

None == <<>>

-----------------------------------------------------------------------------
(* Python dict operations on insertion-ordered item sequences *)

DictKeys(d) == { d[i][1] : i \in 1..Len(d) }

DictHas(d, k) == k \in DictKeys(d)

DictIndex(d, k) == CHOOSE i \in 1..Len(d) : d[i][1] = k

DictGet(d, k) == d[DictIndex(d, k)][2]

\* d[k] = v : replaces the value in place when k is present, appends otherwise
DictSet(d, k, v) ==
    IF DictHas(d, k)
      THEN [d EXCEPT ![DictIndex(d, k)] = <<k, v>>]
      ELSE Append(d, <<k, v>>)

-----------------------------------------------------------------------------
(* str(prompt) and the digests *)

Repr(s) == "'" \o s \o "'"

RECURSIVE ItemsStr(_)
ItemsStr(d) ==
    IF Len(d) = 0 THEN ""
    ELSE IF Len(d) = 1 THEN Repr(d[1][1]) \o ": " \o Repr(d[1][2])
    ELSE Repr(d[1][1]) \o ": " \o Repr(d[1][2]) \o ", " \o ItemsStr(Tail(d))

\* str(prompt) of a dict: the items in insertion order
StrDict(d) == "{" \o ItemsStr(d) \o "}"

\* hashlib.sha256(data).hexdigest(): an ideal (collision-free) digest, a
\* sequence as the string of hex digits is, so that two digests concatenate
Sha256Hex(data) == <<"sha256", data>>

\* str(prompt) of every prompt of the model, rendered once
PromptTexts == [p \in Prompts |-> StrDict(p)]

\* str(prompt)
PromptText(prompt) == PromptTexts[prompt]

\* a digest of the system prompt alone
PromptHashSystemOnly(prompt) == Sha256Hex(Repr(DictGet(prompt, "system")))

\* hashlib.sha256(str(prompt).encode()).hexdigest()
PromptHash(prompt) == Sha256Hex(PromptText(prompt))

-----------------------------------------------------------------------------
(* YAML file contents *)

\* yaml.safe_dump(cached_data, f, sort_keys=False): the items in insertion order
SafeDump(d) == [kind |-> "mapping", doc |-> d]

\* what open(response_file, "w") leaves before anything is written
Truncated == [kind |-> "empty", doc |-> <<>>]

\* a loader that takes whatever entries it finds in the text for a mapping
SafeLoadLenient(content) == [type |-> "dict", items |-> content.doc]

\* yaml.safe_load(f): a dict for a mapping document, a list for a sequence
\* document, None for an empty file; text that is not YAML raises YAMLError
SafeLoad(content) ==
    IF content.kind = "mapping"
      THEN [type |-> "dict", items |-> content.doc]
    ELSE IF content.kind = "sequence"
      THEN [type |-> "list", items |-> content.doc]
    ELSE IF content.kind = "invalid"
      THEN [type |-> "YAMLError", items |-> <<>>]
    ELSE [type |-> "none", items |-> <<>>]

-----------------------------------------------------------------------------
(* RecordReplayManager *)

\* os.getenv("TEST_NAME", "default"), then the parent directory of the source
\* file when the name is "default"
TestName ==
    LET test_name == IF env_TEST_NAME = "" THEN "default" ELSE env_TEST_NAME
    IN  IF test_name = "default"
          THEN IF Len(SourceParts) >= 2
                 THEN SourceParts[Len(SourceParts) - 1]
                 ELSE test_name
          ELSE test_name

\* the digest of the two files as they are on disk now
FreshFilesHash ==
    Sha256Hex(Sha256Hex(SourceContent) \o Sha256Hex(test_file))

\* _calculate_files_hash without the cache of lines 177-179
CalculateFilesHashUncached(m) == FreshFilesHash

\* _calculate_files_hash that caches the digest of the test file alone
CalculateFilesHashTestOnly(m) ==
    IF mgr[m].files_hash # None THEN mgr[m].files_hash ELSE Sha256Hex(test_file)

\* _calculate_files_hash: the cached hash when there is one
CalculateFilesHash(m) ==
    IF mgr[m].files_hash # None THEN mgr[m].files_hash ELSE FreshFilesHash

\* _get_response_file_path: the value returned, the path
\* base_dir / f"{test_name}_responses_{files_hash}.yml" as its components
ResponseFilePath(m) ==
    <<mgr[m].base_dir, TestName, "_responses_", CalculateFilesHash(m), ".yml">>

\* _get_response_file_path: its effects (mkdir, the hash is cached)
ResolvePath(m) ==
    /\ dirs' = dirs \cup {mgr[m].base_dir}
    /\ mgr' = [mgr EXCEPT ![m].files_hash = CalculateFilesHash(m)]

\* load_recorded_response without the record-mode return of lines 71-73
LoadResultAnyMode(m, prompt) ==
    LET response_file == ResponseFilePath(m) IN
    IF response_file \notin DOMAIN files THEN None
    ELSE LET cached_data == SafeLoad(files[response_file])
             prompt_hash == PromptHash(prompt)
         IN  IF cached_data.type # "dict" THEN None
             ELSE IF DictHas(cached_data.items, prompt_hash)
               THEN LET entry == DictGet(cached_data.items, prompt_hash)
                    IN  <<entry.response, entry.prompt_tokens,
                          entry.completion_tokens>>
               ELSE None

\* load_recorded_response returning the two token counts in the other order
LoadResultSwapped(m, prompt) ==
    IF LoadResultAnyMode(m, prompt) = None \/ mgr[m].record_mode THEN None
    ELSE <<LoadResultAnyMode(m, prompt)[1], LoadResultAnyMode(m, prompt)[3],
           LoadResultAnyMode(m, prompt)[2]>>

\* what load_recorded_response returns
LoadResult(m, prompt) ==
    IF mgr[m].record_mode THEN None
    ELSE LET response_file == ResponseFilePath(m) IN
         IF response_file \notin DOMAIN files THEN None
         ELSE LET cached_data == SafeLoad(files[response_file])
                  prompt_hash == PromptHash(prompt)
              IN  IF cached_data.type # "dict" THEN None
                  ELSE IF DictHas(cached_data.items, prompt_hash)
                    THEN LET entry == DictGet(cached_data.items, prompt_hash)
                         IN  <<entry.response, entry.prompt_tokens,
                               entry.completion_tokens>>
                    ELSE None

\* the effects of load_recorded_response on the manager and the directory
LoadEffects(m) ==
    IF mgr[m].record_mode
      THEN UNCHANGED <<mgr, dirs>>
      ELSE ResolvePath(m)

LoadRecordedResponse(m, prompt) ==
    /\ pc = "idle"
    /\ LoadEffects(m)
    /\ last' = [op |-> "load", m |-> m, prompt |-> prompt,
                result |-> LoadResult(m, prompt), raised |-> "", replaced |-> FALSE]
    /\ UNCHANGED <<env_TEST_NAME, test_file, files, recorded, pc, pending>>
    /\ UNCHANGED <<valVars, runVars, extVars>>

\* record_response that never reads the existing file
ExistingDataFresh(response_file) == <<>>

\* record_response that keeps what the existing file holds, mapping or not
ExistingDataLenient(response_file) ==
    IF response_file \in DOMAIN files THEN files[response_file].doc ELSE <<>>

\* record_response, lines 131-142: the existing mapping, or a fresh one when
\* the file is absent, is not YAML (YAMLError is caught) or is not a mapping
ExistingData(response_file) ==
    IF response_file \in DOMAIN files
      THEN LET loaded_data == SafeLoad(files[response_file])
           IN  IF loaded_data.type = "dict" THEN loaded_data.items ELSE <<>>
      ELSE <<>>

\* record_response that keeps the entry a prompt already has (setdefault)
NewCachedDataKeep(m, prompt, response, prompt_tokens, completion_tokens) ==
    IF DictHas(ExistingData(ResponseFilePath(m)), PromptHash(prompt))
      THEN ExistingData(ResponseFilePath(m))
      ELSE Append(ExistingData(ResponseFilePath(m)),
                  <<PromptHash(prompt),
                    [prompt |-> prompt, response |-> response,
                     prompt_tokens |-> prompt_tokens,
                     completion_tokens |-> completion_tokens,
                     files_hash |-> CalculateFilesHash(m)]>>)

\* record_response, lines 144-154: cached_data after the new entry is set
NewCachedData(m, prompt, response, prompt_tokens, completion_tokens) ==
    DictSet(ExistingData(ResponseFilePath(m)), PromptHash(prompt),
            [prompt |-> prompt, response |-> response,
             prompt_tokens |-> prompt_tokens,
             completion_tokens |-> completion_tokens,
             files_hash |-> CalculateFilesHash(m)])

\* the history of what was asked to be stored under a path for a prompt
Remember(path, prompt, response, prompt_tokens, completion_tokens) ==
    recorded' =
        { r \in recorded : ~(r.path = path /\ r.text = PromptText(prompt)) }
            \cup { [path |-> path, text |-> PromptText(prompt), prompt |-> prompt,
                    result |-> <<response, prompt_tokens, completion_tokens>>] }

\* record_response without the replay-mode return of lines 124-126
RecordEffectsAnyMode(m, prompt, response, prompt_tokens, completion_tokens) ==
    /\ ResolvePath(m)
    /\ files' = (ResponseFilePath(m) :>
                   SafeDump(NewCachedData(m, prompt, response,
                                          prompt_tokens, completion_tokens)))
                @@ files
    /\ Remember(ResponseFilePath(m), prompt, response,
                prompt_tokens, completion_tokens)

\* the effects of record_response on the manager, the directory and the store
RecordEffects(m, prompt, response, prompt_tokens, completion_tokens) ==
    IF ~mgr[m].record_mode
      THEN UNCHANGED <<mgr, dirs, files, recorded>>
      ELSE /\ ResolvePath(m)
           /\ files' = (ResponseFilePath(m) :>
                          SafeDump(NewCachedData(m, prompt, response,
                                                 prompt_tokens, completion_tokens)))
                       @@ files
           /\ Remember(ResponseFilePath(m), prompt, response,
                       prompt_tokens, completion_tokens)

\* history: the call replaces an entry that the store already holds
Replaces(m, prompt) ==
    /\ mgr[m].record_mode
    /\ DictHas(ExistingData(ResponseFilePath(m)), PromptHash(prompt))

\* the bound of the model: a new entry is recorded only while there is room
HasRoom(m, prompt) ==
    \/ ~mgr[m].record_mode
    \/ Cardinality(recorded) < MaxEntries
    \/ \E r \in recorded : r.path = ResponseFilePath(m) /\ r.text = PromptText(prompt)

RecordResponse(m, prompt, response, prompt_tokens, completion_tokens) ==
    /\ pc = "idle"
    /\ HasRoom(m, prompt)
    /\ RecordEffects(m, prompt, response, prompt_tokens, completion_tokens)
    /\ last' = [op |-> "record", m |-> m, prompt |-> prompt,
                result |-> None, raised |-> "", replaced |-> Replaces(m, prompt)]
    /\ UNCHANGED <<env_TEST_NAME, test_file, pc, pending>>
    /\ UNCHANGED <<valVars, runVars, extVars>>

\* RecordReplayManager(record_mode, base_dir): a new manager object takes the
\* place of m, in the same mode
Construct(m) ==
    /\ pc = "idle"
    /\ mgr[m].files_hash # None
    /\ mgr' = [mgr EXCEPT ![m] = [record_mode |-> mgr[m].record_mode,
                                  base_dir |-> BaseDir, files_hash |-> None]]
    /\ UNCHANGED <<env_TEST_NAME, test_file, dirs, files, last, recorded,
                   pc, pending>>
    /\ UNCHANGED <<valVars, runVars, extVars>>

-----------------------------------------------------------------------------
(* AICallerReplay *)

\* call_model that answers a miss with a live completion instead of raising
ReplayOutcomeFallback(recorded_response) ==
    IF recorded_response = None
      THEN [result |-> <<"r1", 10, 20>>, raised |-> ""]
      ELSE [result |-> recorded_response, raised |-> ""]

\* how call_model ends: KeyError when there is no recorded response (line
\* 43, "if not recorded_response"), the recorded tuple otherwise
ReplayOutcome(recorded_response) ==
    IF recorded_response = None
      THEN [result |-> None, raised |-> "KeyError"]
      ELSE [result |-> recorded_response, raised |-> ""]

\* AICallerReplay(source_file, test_file, record_replay_manager = m).call_model
ReplayCallModel(m, prompt) ==
    /\ pc = "idle"
    /\ LoadEffects(m)
    /\ last' = [op |-> "call_model", m |-> m, prompt |-> prompt,
                result |-> ReplayOutcome(LoadResult(m, prompt)).result,
                raised |-> ReplayOutcome(LoadResult(m, prompt)).raised,
                replaced |-> FALSE]
    /\ UNCHANGED <<env_TEST_NAME, test_file, files, recorded, pc, pending>>
    /\ UNCHANGED <<valVars, runVars, extVars>>

-----------------------------------------------------------------------------
(* The environment of the cache *)

\* the test file is rewritten between calls (tests are added to it)
WriteTestFile(content) ==
    /\ pc = "idle"
    /\ test_file # content
    /\ test_file' = content
    /\ UNCHANGED <<env_TEST_NAME, mgr, dirs, files, last, recorded, pc, pending>>
    /\ UNCHANGED <<valVars, runVars, extVars>>

-----------------------------------------------------------------------------
(* Validation of a candidate test: bounds, inputs and values *)

\* at most this many candidates are received in a session
MaxAttempts == 2

\* run_tests_multiple_times is configured between 1 and this
MaxRepetitions == 2

\* exit codes of the test command
ExitCodes == {0, 1}

\* the exit code of an outcome that has none (no run, or the process was killed)
NoExitCode == -1

\* aggregate coverage of a report, in percent
CoverageLevels == {40, 50, 60}

\* no report: none was produced, or the coverage artifact cannot be parsed
NoReport == [readable |-> FALSE, total |-> 0]

\* what parsing the coverage artifact after a run gives
Reports == { [readable |-> TRUE, total |-> t] : t \in CoverageLevels } \cup {NoReport}

\* a candidate: the test code and the line after which it is to be inserted
Candidates == { [test_code |-> "def test_new", insert_after |-> n] : n \in 0..2 }

NoCandidate == [test_code |-> "", insert_after |-> 0]

NoOutcome == [status |-> "", reason |-> "", exit_code |-> NoExitCode,
              report |-> NoReport]

-----------------------------------------------------------------------------
(* Specification of the cache with whole calls *)

NoPending == [path |-> None, before |-> [kind |-> "absent", doc |-> <<>>],
              prompt |-> <<>>, result |-> None, replaced |-> FALSE,
              cached_data |-> <<>>]

NoCall == [op |-> "none", m |-> "rec", prompt |-> <<>>, result |-> None,
           raised |-> "", replaced |-> FALSE]

\* the cache and the test file when a session starts
CacheStart ==
    /\ test_file = <<"t0">>
    /\ mgr = [m \in Managers |->
                [record_mode |-> (m = "rec"), base_dir |-> BaseDir,
                 files_hash |-> None]]
    /\ dirs = {}
    /\ files = <<>>
    /\ last = NoCall
    /\ recorded = {}
    /\ pc = "idle"
    /\ pending = NoPending

\* no candidate has been received; the baseline report shows 50 percent
ValidationStart ==
    /\ state = "IDLE"
    /\ candidate = NoCandidate
    /\ original_content = <<>>
    /\ baseline = 50
    /\ process = "none"
    /\ runs = <<>>
    /\ outcome = NoOutcome
    /\ attempts = 0
    /\ before = [content |-> <<"t0">>, baseline |-> 50]

\* CoverAgent.run has not been called
RunStart ==
    /\ run_pc = "start"
    /\ iteration_count = 0
    /\ calls = [init |-> 0, finalize |-> 0, rounds |-> 0]
    /\ exit_status = NoExitCode
    /\ report_dumped = FALSE
    /\ raised = ""

NotBuilt == [status |-> "none", fields |-> <<>>]

\* from_args_with_defaults has not been called
ConfigStart ==
    /\ args = <<>>
    /\ toml_config = <<>>
    /\ built = NotBuilt

NoResult == [status |-> "none", value |-> None]

\* an AICaller built with the defaults, call_model has not been called
CallStart ==
    /\ enable_retry = TRUE
    /\ model = "test-model"
    /\ call_prompt = <<>>
    /\ stream = TRUE
    /\ call_pc = "idle"
    /\ attempt_number = 0
    /\ completions = <<>>
    /\ messages = <<>>
    /\ call_result = NoResult

NoComponent == [created |-> FALSE, test_file_path |-> ""]

NoAgent ==
    [status |-> "none", raised |-> None, given_output_path |-> "", copied |-> FALSE,
     test_db |-> FALSE, test_gen |-> NoComponent, test_validator |-> NoComponent]

NoPaths ==
    [source_file_path |-> "", test_file_path |-> "", test_file_output_path |-> "",
     project_root |-> ""]

\* no CoverAgent has been constructed
AgentStart ==
    /\ fs = <<>>
    /\ config_paths = NoPaths
    /\ agent = NoAgent

NoLogger == [status |-> "none", name |-> "", raised |-> None]

\* get_logger has not been called
LoggerStart ==
    /\ env_LOG_LEVEL = None
    /\ loggers = <<>>
    /\ logger = NoLogger

NoDiffReport == [computed |-> FALSE, total |-> 0, files |-> <<>>]

\* diff_coverage has not been called
DiffStart ==
    /\ coverage_report = <<>>
    /\ changed_lines = <<>>
    /\ diff_report = NoDiffReport

NoTestArgs ==
    [source_file_path |-> "", test_file_path |-> "", test_command |-> "",
     dockerfile |-> "", docker_image |-> "", log_db_path |-> ""]

\* run_test has not been called
DockerStart ==
    /\ test_args = NoTestArgs
    /\ container = "none"
    /\ docker_pc = "idle"
    /\ docker_exit = NoExitCode

NoConfig == [max_iterations |-> 0, desired_coverage |-> 0, strict_coverage |-> FALSE]

Init ==
    /\ env_TEST_NAME \in EnvNames
    /\ CacheStart
    /\ ConfigStart
    /\ CallStart
    /\ AgentStart
    /\ LoggerStart
    /\ DiffStart
    /\ ValidationStart
    /\ run_tests_multiple_times = 1
    /\ RunStart
    /\ config = NoConfig
    /\ DockerStart

Next ==
    \/ \E m \in Managers : Construct(m)
    \/ \E m \in Managers, prompt \in Prompts :
          LoadRecordedResponse(m, prompt)
    \/ \E m \in Managers, prompt \in Prompts, c \in Completions :
          RecordResponse(m, prompt, c[1], c[2], c[3])
    \/ \E m \in Managers, prompt \in Prompts :
          ReplayCallModel(m, prompt)
    \/ \E content \in TestContents : WriteTestFile(content)

Spec == Init /\ [][Next]_vars

-----------------------------------------------------------------------------
(* record_response step by step: what the file holds while a call runs *)

\* the content of a response file, with a value for "no such file"
FileState(path) ==
    IF path \in DOMAIN files THEN files[path] ELSE [kind |-> "absent", doc |-> <<>>]

\* lines 124-154: the path is resolved, the existing mapping is read and the
\* new entry is set in memory; in replay mode the call returns at line 126
RecordBegin(m, prompt, response, prompt_tokens, completion_tokens) ==
    /\ pc = "idle"
    /\ HasRoom(m, prompt)
    /\ IF ~mgr[m].record_mode
         THEN /\ last' = [op |-> "record", m |-> m, prompt |-> prompt,
                          result |-> None, raised |-> "", replaced |-> FALSE]
              /\ UNCHANGED <<mgr, dirs, pc, pending>>
         ELSE /\ ResolvePath(m)
              /\ pending' = [path |-> ResponseFilePath(m),
                             before |-> FileState(ResponseFilePath(m)),
                             prompt |-> prompt,
                             result |-> <<response, prompt_tokens, completion_tokens>>,
                             replaced |-> Replaces(m, prompt),
                             cached_data |-> NewCachedData(m, prompt, response,
                                                prompt_tokens, completion_tokens)]
              /\ pc' = "loaded"
              /\ UNCHANGED last
    /\ UNCHANGED <<env_TEST_NAME, test_file, files, recorded>>
    /\ UNCHANGED <<valVars, runVars, extVars>>

\* line 157: open(response_file, "w") creates or truncates the file
RecordOpen ==
    /\ pc = "loaded"
    /\ files' = (pending.path :> Truncated) @@ files
    /\ pc' = "opened"
    /\ UNCHANGED <<env_TEST_NAME, test_file, mgr, dirs, last, recorded, pending>>
    /\ UNCHANGED <<valVars, runVars, extVars>>

\* line 158: yaml.safe_dump writes the mapping and the file is closed
RecordDump ==
    /\ pc = "opened"
    /\ files' = (pending.path :> SafeDump(pending.cached_data)) @@ files
    /\ Remember(pending.path, pending.prompt, pending.result[1],
                pending.result[2], pending.result[3])
    /\ last' = [op |-> "record", m |-> "rec", prompt |-> pending.prompt,
                result |-> None, raised |-> "", replaced |-> pending.replaced]
    /\ pc' = "idle"
    /\ UNCHANGED <<env_TEST_NAME, test_file, mgr, dirs, pending>>
    /\ UNCHANGED <<valVars, runVars, extVars>>

\* the call is cut short between two of its steps (the process is killed, or
\* an exception such as an I/O error or KeyboardInterrupt leaves the method)
Interrupt ==
    /\ pc \in {"loaded", "opened"}
    /\ last' = [op |-> "record", m |-> "rec", prompt |-> pending.prompt,
                result |-> None, raised |-> "Interrupted", replaced |-> FALSE]
    /\ pc' = "idle"
    /\ UNCHANGED <<env_TEST_NAME, test_file, mgr, dirs, files, recorded, pending>>
    /\ UNCHANGED <<valVars, runVars, extVars>>

NextSteps ==
    \/ \E m \in Managers : Construct(m)
    \/ \E m \in Managers, prompt \in Prompts, c \in Completions :
          RecordBegin(m, prompt, c[1], c[2], c[3])
    \/ RecordOpen
    \/ RecordDump
    \/ Interrupt
    \/ \E content \in TestContents : WriteTestFile(content)

SpecSteps == Init /\ [][NextSteps]_vars

-----------------------------------------------------------------------------
(* The validation state machine:                                           *)
(* PENDING -> MODIFIED -> EXECUTED -> {PASSED, FAILED, TIMED_OUT}          *)
(*         -> {ACCEPTED, ROLLED_BACK}                                      *)

Terminal == {"ACCEPTED", "ROLLED_BACK"}

\* the insertion line lies within the file
InBounds(content, line) == line \in 0..Len(content)

\* the content with the test code inserted after the given line
Splice(content, test_code, line) ==
    SubSeq(content, 1, line) \o <<test_code>> \o SubSeq(content, line + 1, Len(content))

\* the number of re-executions of a candidate that passed
Repetitions ==
    IF run_tests_multiple_times > 1 THEN run_tests_multiple_times ELSE 0

\* a verdict that lets every run pass
ClassifiedAlwaysPassed(exit_code) == "PASSED"

\* EXECUTED -> PASSED | FAILED by the exit code of the command
Classified(exit_code) == IF exit_code = 0 THEN "PASSED" ELSE "FAILED"

\* an acceptance rule that takes equal coverage for an increase
CoverageNotLower(report) == report.total >= baseline

\* an acceptance rule that takes any report
CoverageAnyReport(report) == TRUE

\* strictly greater aggregate coverage than the baseline
CoverageIncreased(report) == report.total > baseline

\* a parser that takes a missing artifact for a report
ReadableAlways(report) == TRUE

\* the coverage artifact was found and parsed
Readable(report) == report.readable

\* a per-attempt error that is raised to the caller as it is
PropagatedUnconverted(error) == error

\* the exception that leaves validate_test for a per-attempt error: none,
\* the error is caught and converted into the outcome
Propagated(error) == ""

\* a rollback that leaves the candidate in the file
ModifiedContent == test_file

\* what a rollback writes to the test file: the content captured at the splice
RestoredContent == original_content

\* a deadline that leaves the process running
ProcessLeftRunning == "running"

\* on deadline expiry the process is forcibly terminated
ProcessAfterDeadline == "killed"

\* what a repetition gives: an exit code, or none when it was terminated
RunResults == ExitCodes \cup {NoExitCode}

\* a verdict on the repetitions that looks at the last one only
FlakyLastOnly(results) == Len(results) > 1 /\ results[Len(results)] # 0

\* some repetition (a run after the first) did not pass
Flaky(results) == \E i \in 2..Len(results) : results[i] # 0

\* the first repetition that did not pass
FailedRepetition(results) ==
    CHOOSE i \in 2..Len(results) :
        results[i] # 0 /\ \A j \in 2..(i - 1) : results[j] = 0

\* the terminal outcome: status, reason, exit code and the report if produced
Outcome(status, reason, exit_code, report) ==
    [status |-> status, reason |-> reason, exit_code |-> exit_code,
     report |-> report]

\* calls of validate_test that overlap (a concurrent map over the tests)
ReturnedAnyTime(s) == TRUE

\* the list comprehension calls validate_test for a test only after the
\* call for the test before it has returned its outcome
Returned(s) == s \in {"IDLE"} \cup Terminal

\* validate_test is called for one generated test after the other
Receive(c) ==
    /\ Returned(state)
    /\ attempts < MaxAttempts
    /\ state' = "PENDING"
    /\ candidate' = c
    /\ attempts' = attempts + 1
    /\ process' = "none"
    /\ runs' = <<>>
    /\ outcome' = NoOutcome
    /\ before' = [content |-> test_file, baseline |-> baseline]
    /\ UNCHANGED <<test_file, original_content, baseline, run_tests_multiple_times>>
    /\ UNCHANGED <<cacheVars, runVars, extVars>>

\* PENDING -> MODIFIED: the original content is captured and the candidate
\* is spliced into the test file
Insert ==
    /\ state = "PENDING"
    /\ InBounds(test_file, candidate.insert_after)
    /\ original_content' = test_file
    /\ test_file' = Splice(test_file, candidate.test_code, candidate.insert_after)
    /\ state' = "MODIFIED"
    /\ UNCHANGED <<candidate, baseline, run_tests_multiple_times, process, runs,
                   outcome, attempts, before>>
    /\ UNCHANGED <<cacheVars, runVars, extVars>>

\* the insertion point is out of the file's bounds: fails fast, nothing is run
RejectInsertion ==
    /\ state = "PENDING"
    /\ ~InBounds(test_file, candidate.insert_after)
    /\ state' = "ROLLED_BACK"
    /\ outcome' = Outcome("FAIL", "Insertion point out of bounds", NoExitCode, NoReport)
    /\ UNCHANGED <<test_file, candidate, original_content, baseline,
                   run_tests_multiple_times, process, runs, attempts, before>>
    /\ raised' = Propagated("InsertionBoundsError")
    /\ UNCHANGED <<cacheVars, loopVars, extVars>>

\* the test command is started through the command runner
StartCommand ==
    /\ state = "MODIFIED"
    /\ process = "none"
    /\ process' = "running"
    /\ UNCHANGED <<test_file, state, candidate, original_content, baseline,
                   run_tests_multiple_times, runs, outcome, attempts, before>>
    /\ UNCHANGED <<cacheVars, runVars, extVars>>

\* MODIFIED -> EXECUTED: the command exits within max_run_time
CommandExits(exit_code) ==
    /\ state = "MODIFIED"
    /\ process = "running"
    /\ process' = "exited"
    /\ runs' = Append(runs, exit_code)
    /\ state' = "EXECUTED"
    /\ UNCHANGED <<test_file, candidate, original_content, baseline,
                   run_tests_multiple_times, outcome, attempts, before>>
    /\ UNCHANGED <<cacheVars, runVars, extVars>>

\* a command runner without a deadline
DeadlineNeverFires == FALSE

\* MODIFIED -> TIMED_OUT: max_run_time elapses, the process is terminated and
\* the file is rolled back immediately
Deadline ==
    /\ state = "MODIFIED"
    /\ process = "running"
    /\ process' = ProcessAfterDeadline
    /\ runs' = Append(runs, NoExitCode)
    /\ test_file' = RestoredContent
    /\ state' = "TIMED_OUT"
    /\ UNCHANGED <<candidate, original_content, baseline, run_tests_multiple_times,
                   outcome, attempts, before>>
    /\ UNCHANGED <<cacheVars, runVars, extVars>>

\* EXECUTED -> PASSED | FAILED
Classify ==
    /\ state = "EXECUTED"
    /\ state' = Classified(runs[Len(runs)])
    /\ UNCHANGED <<test_file, candidate, original_content, baseline,
                   run_tests_multiple_times, process, runs, outcome, attempts, before>>
    /\ UNCHANGED <<cacheVars, runVars, extVars>>

\* FAILED | TIMED_OUT -> ROLLED_BACK: the original content is restored
RollBack ==
    /\ state \in {"FAILED", "TIMED_OUT"}
    /\ test_file' = RestoredContent
    /\ state' = "ROLLED_BACK"
    /\ outcome' = IF state = "FAILED"
                    THEN Outcome("FAIL", "Test failed", runs[Len(runs)], NoReport)
                    ELSE Outcome("FAIL", "Timed out", NoExitCode, NoReport)
    /\ UNCHANGED <<candidate, original_content, baseline, run_tests_multiple_times,
                   process, runs, attempts, before>>
    /\ raised' = IF state = "TIMED_OUT" THEN Propagated("CommandTimeoutError") ELSE raised
    /\ UNCHANGED <<cacheVars, loopVars, extVars>>

\* a candidate that passed is run again, as many times as configured; a
\* repetition that does not finish within max_run_time is terminated and
\* counts as a failed repetition
Repeat(result) ==
    /\ state = "PASSED"
    /\ Len(runs) - 1 < Repetitions
    /\ runs' = Append(runs, result)
    /\ process' = IF result = NoExitCode THEN "killed" ELSE "exited"
    /\ UNCHANGED <<test_file, state, candidate, original_content, baseline,
                   run_tests_multiple_times, outcome, attempts, before>>
    /\ UNCHANGED <<cacheVars, runVars, extVars>>

\* a repetition that failed demotes the candidate to ROLLED_BACK with reason
\* "flaky", whatever the other repetitions gave
Demote ==
    /\ state = "PASSED"
    /\ Len(runs) - 1 = Repetitions
    /\ Flaky(runs)
    /\ test_file' = RestoredContent
    /\ state' = "ROLLED_BACK"
    /\ outcome' = Outcome("FAIL", "flaky", runs[FailedRepetition(runs)], NoReport)
    /\ UNCHANGED <<candidate, original_content, baseline, run_tests_multiple_times,
                   process, runs, attempts, before>>
    /\ UNCHANGED <<cacheVars, runVars, extVars>>

\* PASSED -> ACCEPTED | ROLLED_BACK: the coverage artifact is parsed and the
\* report is compared against the baseline
Compare(report) ==
    /\ state = "PASSED"
    /\ Len(runs) - 1 = Repetitions
    /\ ~Flaky(runs)
    /\ IF ~Readable(report)
         THEN /\ test_file' = RestoredContent
              /\ state' = "ROLLED_BACK"
              /\ outcome' = Outcome("FAIL", "coverage report missing/unreadable",
                                    runs[Len(runs)], NoReport)
              /\ UNCHANGED baseline
         ELSE IF CoverageIncreased(report)
           THEN /\ state' = "ACCEPTED"
                /\ outcome' = Outcome("PASS", "", runs[Len(runs)], report)
                /\ baseline' = report.total
                /\ UNCHANGED test_file
           ELSE /\ test_file' = RestoredContent
                /\ state' = "ROLLED_BACK"
                /\ outcome' = Outcome("FAIL", "Coverage did not increase",
                                      runs[Len(runs)], report)
                /\ UNCHANGED baseline
    /\ UNCHANGED <<candidate, original_content, run_tests_multiple_times,
                   process, runs, attempts, before>>
    /\ raised' = IF ~Readable(report) THEN Propagated("ParseError") ELSE raised
    /\ UNCHANGED <<cacheVars, loopVars, extVars>>

InitValidate ==
    /\ env_TEST_NAME = ""
    /\ CacheStart
    /\ ConfigStart
    /\ CallStart
    /\ AgentStart
    /\ LoggerStart
    /\ DiffStart
    /\ ValidationStart
    /\ run_tests_multiple_times \in 1..MaxRepetitions
    /\ RunStart
    /\ config = NoConfig
    /\ DockerStart

NextValidate ==
    \/ \E c \in Candidates : Receive(c)
    \/ Insert
    \/ RejectInsertion
    \/ StartCommand
    \/ \E exit_code \in ExitCodes : CommandExits(exit_code)
    \/ Deadline
    \/ Classify
    \/ RollBack
    \/ \E result \in RunResults : Repeat(result)
    \/ Demote
    \/ \E report \in Reports : Compare(report)

SpecValidate == InitValidate /\ [][NextValidate]_vars

\* validate_test as test_validate_test_pass_no_coverage_increase_with_prompt
\* shows it: with relevant_line_number_to_insert_tests_after beyond the end
\* of the file the candidate is still written and the command is run; the
\* test does not show where the candidate lands in the file
InsertOutOfBounds(line) ==
    /\ state = "PENDING"
    /\ ~InBounds(test_file, candidate.insert_after)
    /\ InBounds(test_file, line)
    /\ original_content' = test_file
    /\ test_file' = Splice(test_file, candidate.test_code, line)
    /\ state' = "MODIFIED"
    /\ UNCHANGED <<candidate, baseline, run_tests_multiple_times, process, runs,
                   outcome, attempts, before>>
    /\ UNCHANGED <<cacheVars, runVars, extVars>>

NextValidateTested ==
    \/ \E c \in Candidates : Receive(c)
    \/ Insert
    \/ \E line \in 0..Len(test_file) : InsertOutOfBounds(line)
    \/ StartCommand
    \/ \E exit_code \in ExitCodes : CommandExits(exit_code)
    \/ Deadline
    \/ Classify
    \/ RollBack
    \/ \E result \in RunResults : Repeat(result)
    \/ Demote
    \/ \E report \in Reports : Compare(report)

SpecValidateTested == InitValidate /\ [][NextValidateTested]_vars

\* the steps the engine takes by itself; a repetition is run under the
\* deadline of the command runner and so always ends
EngineStep ==
    \/ Insert
    \/ RejectInsertion
    \/ StartCommand
    \/ Classify
    \/ RollBack
    \/ \E result \in RunResults : Repeat(result)
    \/ Demote
    \/ \E report \in Reports : Compare(report)

\* the engine keeps going and the deadline timer fires unless the command
\* exits first; nothing makes the external command exit
SpecValidateLive ==
    SpecValidate /\ WF_vars(EngineStep) /\ WF_vars(Deadline)

-----------------------------------------------------------------------------
(* CoverAgent.run: init, the generate-and-validate rounds, finalize *)

\* the loop runs at most this many iterations in the model
MaxIterations == 2

\* desired_coverage in percent: met at the start, reachable, out of reach
DesiredCoverages == {50, 60, 70}

Configs ==
    [max_iterations : 0..MaxIterations, desired_coverage : DesiredCoverages,
     strict_coverage : BOOLEAN]

\* a loop test that lets one more iteration through
LoopConditionInclusive(count, max_iterations) == count <= max_iterations

\* a loop test that looks at the target before the round
LoopConditionTargetFirst(count, max_iterations) ==
    count < max_iterations /\ baseline < config.desired_coverage

\* while iteration_count < self.config.max_iterations
LoopCondition(count, max_iterations) == count < max_iterations

\* current_coverage >= desired_coverage / 100, both sides times 100: the
\* model holds current_coverage in percent
TargetReached(current_coverage, desired_coverage) ==
    current_coverage >= desired_coverage

\* a finalize that exits whether or not strict_coverage is set
StrictExitAlways(current_coverage, desired_coverage, count, max_iterations, strict_coverage) ==
    current_coverage < desired_coverage /\ count = max_iterations

\* finalize_test_generation, lines 261-272: sys.exit(2) is reached
StrictExit(current_coverage, desired_coverage, count, max_iterations, strict_coverage) ==
    IF current_coverage >= desired_coverage THEN FALSE
    ELSE IF count = max_iterations THEN strict_coverage
    ELSE FALSE

\* run, lines 312-313: iteration_count = 0 and init() is called
RunInit ==
    /\ run_pc = "start"
    /\ raised = ""
    /\ iteration_count' = 0
    /\ calls' = [calls EXCEPT !.init = @ + 1]
    /\ run_pc' = "loop"
    /\ UNCHANGED <<config, exit_status, report_dumped, raised>>
    /\ UNCHANGED <<cacheVars, valVars, test_file, extVars>>

\* run, line 315: the loop test
LoopTest ==
    /\ run_pc = "loop"
    /\ IF LoopCondition(iteration_count, config.max_iterations)
         THEN /\ run_pc' = "generate"
              /\ calls' = [calls EXCEPT !.rounds = @ + 1]
         ELSE /\ run_pc' = "finalize"
              /\ UNCHANGED calls
    /\ UNCHANGED <<iteration_count, config, exit_status, report_dumped, raised>>
    /\ UNCHANGED <<cacheVars, valVars, test_file, extVars>>

\* generate_and_validate_tests, lines 216-219: the tests are generated by a
\* model call; in replay mode a prompt without a recorded response raises
\* KeyError, which nothing in run catches
GenerateTests(recorded_response) ==
    /\ run_pc = "generate"
    /\ raised' = ReplayOutcome(recorded_response).raised
    /\ run_pc' = IF ReplayOutcome(recorded_response).raised = ""
                   THEN "validate" ELSE "raised"
    /\ attempts' = 0
    /\ UNCHANGED <<iteration_count, config, calls, exit_status, report_dumped>>
    /\ UNCHANGED <<state, candidate, original_content, baseline,
                   run_tests_multiple_times, process, runs, outcome, before>>
    /\ UNCHANGED <<cacheVars, test_file, extVars>>

\* lines 221-225: validate_test is called for the next generated test, after
\* the call for the one before has returned
ValidateTest(c) ==
    /\ run_pc = "validate"
    /\ raised = ""
    /\ Receive(c)

\* lines 221-230: the last validate_test has returned, the results are stored
EndValidation ==
    /\ run_pc = "validate"
    /\ raised = ""
    /\ state \in {"IDLE"} \cup Terminal
    /\ run_pc' = "check"
    /\ UNCHANGED <<iteration_count, config, calls, exit_status, report_dumped, raised>>
    /\ UNCHANGED <<cacheVars, valVars, test_file, extVars>>

\* check_iteration_progress and run, lines 318-322
CheckIterationProgress ==
    /\ run_pc = "check"
    /\ IF TargetReached(baseline, config.desired_coverage)
         THEN /\ run_pc' = "finalize"
              /\ UNCHANGED iteration_count
         ELSE /\ run_pc' = "loop"
              /\ iteration_count' = iteration_count + 1
    /\ UNCHANGED <<config, calls, exit_status, report_dumped, raised>>
    /\ UNCHANGED <<cacheVars, valVars, test_file, extVars>>

\* finalize_test_generation(iteration_count)
FinalizeTestGeneration ==
    /\ run_pc = "finalize"
    /\ calls' = [calls EXCEPT !.finalize = @ + 1]
    /\ IF StrictExit(baseline, config.desired_coverage, iteration_count,
                     config.max_iterations, config.strict_coverage)
         THEN /\ exit_status' = 2
              /\ run_pc' = "exited"
              /\ UNCHANGED report_dumped
         ELSE /\ report_dumped' = TRUE
              /\ run_pc' = "done"
              /\ UNCHANGED exit_status
    /\ UNCHANGED <<iteration_count, config, raised>>
    /\ UNCHANGED <<cacheVars, valVars, test_file, extVars>>

InitRun ==
    /\ env_TEST_NAME = ""
    /\ CacheStart
    /\ ConfigStart
    /\ CallStart
    /\ AgentStart
    /\ LoggerStart
    /\ DiffStart
    /\ ValidationStart
    /\ run_tests_multiple_times \in 1..MaxRepetitions
    /\ RunStart
    /\ config \in Configs
    /\ DockerStart

NextRun ==
    \/ RunInit
    \/ LoopTest
    \/ \E recorded_response \in {None} \cup Completions :
          GenerateTests(recorded_response)
    \/ \E c \in Candidates : ValidateTest(c)
    \/ EndValidation
    \/ CheckIterationProgress
    \/ FinalizeTestGeneration
    \/ raised = "" /\ Insert
    \/ raised = "" /\ RejectInsertion
    \/ raised = "" /\ StartCommand
    \/ \E exit_code \in ExitCodes : raised = "" /\ CommandExits(exit_code)
    \/ raised = "" /\ Deadline
    \/ raised = "" /\ Classify
    \/ raised = "" /\ RollBack
    \/ \E result \in RunResults : raised = "" /\ Repeat(result)
    \/ raised = "" /\ Demote
    \/ \E report \in Reports : raised = "" /\ Compare(report)

SpecRun == InitRun /\ [][NextRun]_vars

\* finalize_test_generation(iteration_count) called with any iteration
\* count, coverage and configuration
InitFinalize ==
    /\ env_TEST_NAME = ""
    /\ CacheStart
    /\ ConfigStart
    /\ CallStart
    /\ AgentStart
    /\ LoggerStart
    /\ DiffStart
    /\ state = "IDLE"
    /\ candidate = NoCandidate
    /\ original_content = <<>>
    /\ baseline \in CoverageLevels
    /\ process = "none"
    /\ runs = <<>>
    /\ outcome = NoOutcome
    /\ attempts = 0
    /\ before = [content |-> <<"t0">>, baseline |-> 50]
    /\ run_tests_multiple_times = 1
    /\ run_pc = "finalize"
    /\ iteration_count \in 0..MaxIterations
    /\ calls = [init |-> 1, finalize |-> 0, rounds |-> iteration_count]
    /\ exit_status = NoExitCode
    /\ report_dumped = FALSE
    /\ raised = ""
    /\ config \in Configs
    /\ DockerStart

NextFinalize == FinalizeTestGeneration

SpecFinalize == InitFinalize /\ [][NextFinalize]_vars

\* the steps of run and of the engine; the deadline timer
SpecRunLive ==
    /\ SpecRun
    /\ WF_vars(RunInit \/ LoopTest \/ EndValidation \/ CheckIterationProgress
                  \/ FinalizeTestGeneration)
    /\ WF_vars(\E recorded_response \in {None} \cup Completions :
                  GenerateTests(recorded_response))
    /\ WF_vars(raised = "" /\ EngineStep)
    /\ WF_vars(raised = "" /\ Deadline)

-----------------------------------------------------------------------------
(* Properties of the response cache *)

PromptA  == << <<"system", "s">>, <<"user", "a">> >>
PromptAB == << <<"system", "s">>, <<"user", "ab">> >>

\* the history holds a call that stored this prompt under this path
IsRecorded(path, prompt) ==
    \E r \in recorded : r.path = path /\ r.text = PromptText(prompt)

\* C1: whenever a record-mode call stored (response, prompt_tokens,
\* completion_tokens) for a prompt under a path, load_recorded_response of
\* any replay-mode manager that resolves that path returns exactly that
\* tuple for that prompt.
C1_RoundTrip ==
    \A m \in Managers, r \in recorded :
        (~mgr[m].record_mode /\ ResponseFilePath(m) = r.path)
            => LoadResult(m, r.prompt) = r.result

\* a replay-mode lookup returned the tuple recorded for its prompt
C1_Witness ==
    /\ last.op = "load" /\ last.m = "rep" /\ last.result # None
    /\ \E r \in recorded :
          /\ r.path = ResponseFilePath("rep")
          /\ r.prompt = last.prompt
          /\ r.result = last.result

\* C2: in replay mode load_recorded_response returns None for every prompt
\* whose text differs from the text of every prompt recorded in the store
\* the manager resolves.
C2_MissUnlessRecorded ==
    \A m \in Managers, p \in Prompts :
        (~mgr[m].record_mode /\ ~IsRecorded(ResponseFilePath(m), p))
            => LoadResult(m, p) = None

\* a replay-mode lookup of "ab" missed in a store that holds "a" and not "ab"
C2_Witness ==
    /\ last.op = "load" /\ last.m = "rep" /\ last.result = None
    /\ last.prompt = PromptAB
    /\ IsRecorded(ResponseFilePath("rep"), PromptA)
    /\ ~IsRecorded(ResponseFilePath("rep"), PromptAB)

\* C3: AICallerReplay.call_model never writes the store; when nothing is
\* recorded for the prompt in the store its manager resolves it raises
\* KeyError and returns nothing (no answer from a live call); when its
\* replay-mode manager has a recorded response it returns that tuple.
C3_ReplayFailsFast ==
    [][(last'.op = "call_model" /\ ReplayCallModel(last'.m, last'.prompt)) =>
          LET m == last'.m
              p == last'.prompt
          IN  /\ files' = files
              /\ recorded' = recorded
              /\ ~IsRecorded(ResponseFilePath(m), p)
                    => (last'.raised = "KeyError" /\ last'.result = None)
              /\ (~mgr[m].record_mode /\ IsRecorded(ResponseFilePath(m), p))
                    => /\ last'.raised = ""
                       /\ \E r \in recorded :
                             /\ r.path = ResponseFilePath(m)
                             /\ r.text = PromptText(p)
                             /\ last'.result = r.result]_vars

\* call_model raised KeyError on a miss in a store that holds another prompt
C3_Witness ==
    /\ last.op = "call_model" /\ last.m = "rep" /\ last.raised = "KeyError"
    /\ ResponseFilePath("rep") \in DOMAIN files
    /\ ~IsRecorded(ResponseFilePath("rep"), last.prompt)

\* C4: in record mode load_recorded_response returns None for every prompt,
\* whatever the store holds.
C4_RecordModeAlwaysMisses ==
    \A m \in Managers, p \in Prompts :
        mgr[m].record_mode => LoadResult(m, p) = None

\* a record-mode lookup returned None for a prompt that the same manager
\* recorded earlier
C4_Witness ==
    /\ last.op = "load" /\ last.m = "rec" /\ last.result = None
    /\ mgr["rec"].files_hash # None
    /\ IsRecorded(ResponseFilePath("rec"), last.prompt)

\* C5: record_response of a replay-mode manager leaves the response files,
\* the directories and the manager (its files hash) unchanged.
C5_ReplayRecordIsNoOp ==
    [][(/\ last'.op = "record"
        /\ ~mgr[last'.m].record_mode
        /\ \E c \in Completions :
              RecordResponse(last'.m, last'.prompt, c[1], c[2], c[3]))
          => UNCHANGED <<files, dirs, mgr, recorded>>]_vars

\* record_response was called in replay mode and no file or hash exists
C5_Witness ==
    /\ last.op = "record" /\ last.m = "rep"
    /\ DOMAIN files = {}
    /\ mgr["rep"].files_hash = None

\* the items of a response file
Doc(path) == files[path].doc

\* the entry holds what the history says was stored last for the prompt
EntryIs(entry, r) ==
    /\ entry.prompt = r.prompt
    /\ <<entry.response, entry.prompt_tokens, entry.completion_tokens>> = r.result

\* C6: every response file is a mapping with no key twice, and its entries
\* are exactly the prompts recorded under its path, each with the values of
\* the most recent record_response for that prompt.
C6_LatestEntryPerPrompt ==
    /\ \A path \in DOMAIN files :
          /\ files[path].kind = "mapping"
          /\ \A i, j \in 1..Len(Doc(path)) :
                Doc(path)[i][1] = Doc(path)[j][1] => i = j
          /\ \A i \in 1..Len(Doc(path)) :
                \E r \in recorded :
                   /\ r.path = path
                   /\ Doc(path)[i][1] = Sha256Hex(r.text)
                   /\ EntryIs(Doc(path)[i][2], r)
    /\ \A r \in recorded :
          /\ r.path \in DOMAIN files
          /\ DictHas(Doc(r.path), Sha256Hex(r.text))
          /\ EntryIs(DictGet(Doc(r.path), Sha256Hex(r.text)), r)

\* a record_response replaced the entry of a prompt recorded before, in a
\* store that holds two entries
C6_Witness ==
    /\ last.op = "record" /\ last.m = "rec" /\ last.replaced
    /\ \E path \in DOMAIN files :
          /\ Len(Doc(path)) = 2
          /\ DictHas(Doc(path), PromptHash(last.prompt))

\* C7: record_response in record mode on a response file that holds a
\* mapping keeps every entry whose key is not the new prompt's key, with
\* its value, adds or replaces only the new prompt's entry, and touches no
\* other file.
C7_OtherEntriesKept ==
    [][LET m == last'.m
           p == last'.prompt
           path == ResponseFilePath(m)
       IN  (/\ last'.op = "record"
            /\ mgr[m].record_mode
            /\ path \in DOMAIN files
            /\ files[path].kind = "mapping"
            /\ \E c \in Completions : RecordResponse(m, p, c[1], c[2], c[3]))
              => /\ DOMAIN files' = DOMAIN files
                 /\ \A other \in DOMAIN files \ {path} : files'[other] = files[other]
                 /\ files'[path].kind = "mapping"
                 /\ DictKeys(files'[path].doc)
                       = DictKeys(files[path].doc) \cup {PromptHash(p)}
                 /\ \A k \in DictKeys(files[path].doc) \ {PromptHash(p)} :
                       DictGet(files'[path].doc, k) = DictGet(files[path].doc, k)
                 /\ Len(files'[path].doc) = Cardinality(DictKeys(files'[path].doc))]_vars

\* a record_response added a second entry to a store that held one
C7_Witness ==
    /\ last.op = "record" /\ last.m = "rec" /\ ~last.replaced
    /\ \E path \in DOMAIN files :
          /\ Len(Doc(path)) = 2
          /\ Doc(path)[2][1] = PromptHash(last.prompt)

\* C8: from the start of a record_response call on, also when the call is
\* cut short, the response file is a mapping and holds either the complete
\* mapping from before the call or the complete mapping after it.
C8_AtomicReplace ==
    pending.path # None =>
        \/ FileState(pending.path) = pending.before
        \/ FileState(pending.path) = SafeDump(pending.cached_data)
        \/ (pending.before.kind = "absent" /\ FileState(pending.path).kind # "mapping")

-----------------------------------------------------------------------------
(* Properties of the validation state machine *)

\* a run of the attempt exited with a non-zero code
NonZeroExit == \E i \in 1..Len(runs) : runs[i] \in ExitCodes \ {0}

\* C9: an attempt in which a run of the test command exited non-zero is
\* never ACCEPTED, and when it has ended it is ROLLED_BACK with a failure
\* outcome and the test file holds what it held before the attempt.
C9_NonZeroExitRolledBack ==
    NonZeroExit =>
        /\ state # "ACCEPTED"
        /\ state \in Terminal =>
              /\ state = "ROLLED_BACK"
              /\ outcome.status = "FAIL"
              /\ outcome.exit_code # 0
              /\ test_file = before.content

\* a candidate was spliced in, its run exited 1, and the attempt ended
\* ROLLED_BACK with the file as before
C9_Witness ==
    /\ state = "ROLLED_BACK"
    /\ runs = <<1>>
    /\ outcome.exit_code = 1
    /\ test_file = before.content
    /\ Splice(before.content, candidate.test_code, candidate.insert_after) # test_file

\* C10: an attempt whose runs exited 0 and whose parsed report shows an
\* aggregate coverage equal to or lower than the baseline ends ROLLED_BACK
\* with status FAIL, reason "Coverage did not increase" and exit code 0; an
\* ACCEPTED attempt has a report strictly greater than the baseline it
\* started with.
C10_NoIncreaseRolledBack ==
    /\ (/\ state \in Terminal
        /\ outcome.report.readable
        /\ outcome.report.total <= before.baseline)
          => /\ state = "ROLLED_BACK"
             /\ outcome.status = "FAIL"
             /\ outcome.reason = "Coverage did not increase"
             /\ outcome.exit_code = 0
    /\ state = "ACCEPTED" =>
          /\ outcome.report.readable
          /\ outcome.report.total > before.baseline
          /\ ~NonZeroExit

\* baseline 50, the run exited 0, the new report shows 40: FAIL, exit code 0
C10_Witness ==
    /\ state = "ROLLED_BACK"
    /\ before.baseline = 50
    /\ outcome.report = [readable |-> TRUE, total |-> 40]
    /\ outcome.status = "FAIL"
    /\ outcome.reason = "Coverage did not increase"
    /\ outcome.exit_code = 0
    /\ runs[1] = 0

\* C11: with run_tests_multiple_times > 1 an attempt is ACCEPTED only when
\* every configured repetition was run and passed; an ended attempt in
\* which a repetition failed is ROLLED_BACK with reason "flaky" and the
\* failing repetition's exit code, whatever the other repetitions gave.
C11_FlakyRolledBack ==
    run_tests_multiple_times > 1 =>
        /\ state = "ACCEPTED" =>
              /\ Len(runs) = 1 + run_tests_multiple_times
              /\ \A i \in 1..Len(runs) : runs[i] = 0
        /\ (state \in Terminal /\ \E i \in 2..Len(runs) : runs[i] # 0) =>
              /\ state = "ROLLED_BACK"
              /\ outcome.status = "FAIL"
              /\ outcome.reason = "flaky"
              /\ outcome.exit_code # 0
              /\ test_file = before.content

\* the first repetition failed, the second passed, and the attempt ended
\* ROLLED_BACK as flaky
C11_Witness ==
    /\ run_tests_multiple_times = 2
    /\ state = "ROLLED_BACK"
    /\ runs = <<0, 1, 0>>
    /\ outcome.reason = "flaky"

\* the first run of the attempt did not finish within max_run_time
TimedOut == Len(runs) > 0 /\ runs[1] = NoExitCode

\* C12: a running test command either exits (EXECUTED) or, at the deadline,
\* is terminated with the attempt going straight to TIMED_OUT and the test
\* file restored in the same step; an attempt whose run timed out is only
\* ever TIMED_OUT or ROLLED_BACK, with the process killed and the file as
\* before the attempt, and its outcome is a failure with reason "Timed out".
C12_DeadlineRollsBack ==
    /\ [](TimedOut =>
            /\ state \in {"TIMED_OUT", "ROLLED_BACK"}
            /\ process = "killed"
            /\ test_file = before.content
            /\ state = "TIMED_OUT" => outcome = NoOutcome
            /\ state = "ROLLED_BACK" =>
                  (outcome.status = "FAIL" /\ outcome.reason = "Timed out"))
    /\ [][(process = "running" /\ state' # state) =>
              \/ (state' = "EXECUTED" /\ process' = "exited" /\ ~TimedOut')
              \/ (/\ state' = "TIMED_OUT" /\ process' = "killed" /\ TimedOut'
                  /\ test_file' = before.content)]_vars

\* the command hung, was killed at the deadline, and the attempt ended
\* ROLLED_BACK with the file restored
C12_Witness ==
    /\ state = "ROLLED_BACK"
    /\ runs = <<NoExitCode>>
    /\ process = "killed"
    /\ outcome.reason = "Timed out"
    /\ test_file = before.content
    /\ Len(original_content) = Len(test_file)

\* the reasons of a ROLLED_BACK outcome after the candidate was spliced in
RollbackReasons ==
    {"Test failed", "Timed out", "flaky", "Coverage did not increase",
     "coverage report missing/unreadable"}

\* C13: whenever a failure outcome is reported the attempt is ROLLED_BACK
\* and the test file already holds the content it had before the attempt;
\* for every reason of a rollback after the splice that content is the one
\* captured when the candidate was spliced in.
C13_GuaranteedRollback ==
    /\ state = "ROLLED_BACK" =>
          /\ outcome.status = "FAIL"
          /\ test_file = before.content
          /\ outcome.reason \in RollbackReasons => test_file = original_content
    /\ outcome.status = "FAIL" =>
          (state = "ROLLED_BACK" /\ test_file = before.content)

\* an attempt rolled back for an unreadable coverage report, the file
\* restored to what was captured
C13_Witness ==
    /\ state = "ROLLED_BACK"
    /\ outcome.reason = "coverage report missing/unreadable"
    /\ runs[1] = 0
    /\ test_file = original_content
    /\ test_file # Splice(original_content, candidate.test_code, candidate.insert_after)

\* the place of a state on the path of an attempt
Rank(s) ==
    CASE s = "IDLE" -> 0
      [] s = "PENDING" -> 1
      [] s = "MODIFIED" -> 2
      [] s = "EXECUTED" -> 3
      [] s \in {"PASSED", "FAILED", "TIMED_OUT"} -> 4
      [] s \in Terminal -> 5

\* C14: an attempt in PENDING eventually reaches ACCEPTED or ROLLED_BACK,
\* also when the command never exits; the state of an attempt only moves
\* forward along PENDING, MODIFIED, EXECUTED, PASSED/FAILED/TIMED_OUT,
\* terminal; and after a terminal state nothing changes until the next
\* candidate is received.
C14_AttemptTerminates ==
    /\ (state = "PENDING") ~> (state \in Terminal)
    /\ [][IF state \in Terminal
            THEN \/ (state' = "PENDING" /\ attempts' = attempts + 1
                     /\ test_file' = test_file /\ baseline' = baseline)
                 \/ UNCHANGED <<state, test_file, outcome, runs, attempts,
                                baseline, process>>
            ELSE /\ attempts' = attempts \/ state = "IDLE"
                 /\ state' = state \/ Rank(state') > Rank(state)]_vars

\* the second attempt of a session ended after its command hung
C14_Witness ==
    /\ attempts > 1
    /\ state = "ROLLED_BACK"
    /\ TimedOut
    /\ process = "killed"

-----------------------------------------------------------------------------
(* Properties of CoverAgent.run and of the validation it drives *)

\* the reasons of the outcomes that per-attempt errors are converted into
ErrorReasons ==
    {"Insertion point out of bounds", "Timed out",
     "coverage report missing/unreadable"}

C16_SequentialAttempts ==
    [][/\ (candidate' # candidate \/ attempts' = attempts + 1) =>
              /\ state \in {"IDLE"} \cup Terminal
              /\ process # "running"
              /\ state = "ROLLED_BACK" => test_file = before.content
              /\ state' = "PENDING"
              /\ test_file' = test_file
       /\ state' = "MODIFIED" /\ state # "MODIFIED" =>
              /\ state = "PENDING"
              /\ original_content' = test_file
              /\ test_file' = Splice(test_file, candidate.test_code,
                                     candidate.insert_after)]_vars

\* the second candidate of a round is spliced in after the first attempt
\* ended with the file restored
C16_Witness ==
    /\ calls.rounds = 1
    /\ attempts = 2
    /\ state = "MODIFIED"
    /\ original_content = <<"t0">>
    /\ Len(test_file) = 2

\* run has ended: it returned, the process exited, or an exception left it
Ended == run_pc \in {"done", "exited", "raised"}

C18_StrictExit ==
    [][(run_pc = "finalize" /\ run_pc' # "finalize") =>
          /\ (exit_status' = 2) <=>
                (/\ iteration_count = config.max_iterations
                 /\ baseline < config.desired_coverage
                 /\ config.strict_coverage)
          /\ exit_status' = 2 => (run_pc' = "exited" /\ ~report_dumped')
          /\ exit_status' # 2 =>
                (exit_status' = NoExitCode /\ run_pc' = "done" /\ report_dumped')]_vars

\* the limit was reached below the desired coverage with strict_coverage
\* set: the process exited with status 2 and no report was dumped
C18_Witness ==
    /\ run_pc = "exited"
    /\ exit_status = 2
    /\ ~report_dumped
    /\ config.strict_coverage
    /\ iteration_count = config.max_iterations
    /\ baseline < config.desired_coverage

-----------------------------------------------------------------------------
(* CoverAgentConfig.from_args_with_defaults                                *)
(*                                                                         *)
(* Three of the dataclass fields stand for the rest, one per type whose    *)
(* falsy value differs: bool, int and str.  A value carries its type, so   *)
(* that False, 0 and '' stay different values; None is the empty tuple.    *)

ConfigFields == <<"strict_coverage", "max_iterations", "additional_instructions">>

FieldNames == { ConfigFields[i] : i \in 1..Len(ConfigFields) }

\* per field: the falsy value and a truthy one the command line can give
ArgValues ==
    [strict_coverage |-> { <<"bool", FALSE>>, <<"bool", TRUE>> },
     max_iterations |-> { <<"int", 0>>, <<"int", 10>> },
     additional_instructions |-> { <<"str", "">>, <<"str", "more">> }]

\* an option of the parser that is not a field of the dataclass
ExtraArg == "verbose"

\* vars(args): every field is an attribute (None when the option was not
\* given); the namespace may carry one more attribute
Namespaces ==
    { << <<"strict_coverage", s>>, <<"max_iterations", i>>,
         <<"additional_instructions", a>> >> \o extra :
        s \in ArgValues.strict_coverage \cup {None},
        i \in ArgValues.max_iterations \cup {None},
        a \in ArgValues.additional_instructions \cup {None},
        extra \in { <<>>, << <<ExtraArg, None>> >>,
                    << <<ExtraArg, <<"bool", TRUE>> >> >> } }

\* the [default] table of the TOML settings: truthy defaults or falsy ones
TomlConfigs ==
    { << <<"strict_coverage", <<"bool", TRUE>> >>, <<"max_iterations", <<"int", 5>> >>,
         <<"additional_instructions", <<"str", "default">> >> >>,
      << <<"strict_coverage", <<"bool", FALSE>> >>, <<"max_iterations", <<"int", 0>> >>,
         <<"additional_instructions", <<"str", "">> >> >> }

\* bool(v)
Truthy(v) ==
    /\ v # None
    /\ CASE v[1] = "bool" -> v[2]
         [] v[1] = "int" -> v[2] # 0
         [] v[1] = "str" -> v[2] # ""

OverridesWhenTruthy(v) == Truthy(v)

\* v is not None (hasattr(args, k) holds of every key of vars(args))
Overrides(v) == v # None

\* toml_dict = {field: toml_config.field, ...}
TomlDict(toml) == [i \in 1..Len(ConfigFields) |-> <<ConfigFields[i], DictGet(toml, ConfigFields[i])>>]

\* for k, v in args_dict.items(): if v is not None: merged_dict[k] = v
RECURSIVE Merge(_, _)
Merge(merged_dict, items) ==
    IF items = <<>> THEN merged_dict
    ELSE Merge(IF Overrides(items[1][2])
                 THEN DictSet(merged_dict, items[1][1], items[1][2])
                 ELSE merged_dict,
               Tail(items))

\* cls(**merged_dict): the dataclass constructor takes the fields only
Cls(merged_dict) ==
    IF DictKeys(merged_dict) \subseteq FieldNames
      THEN [status |-> "config", fields |-> merged_dict]
      ELSE [status |-> "TypeError", fields |-> <<>>]

FromArgsWithDefaults ==
    /\ built = NotBuilt
    /\ args # <<>>
    /\ built' = Cls(Merge(TomlDict(toml_config), args))
    /\ UNCHANGED <<args, toml_config>>
    /\ UNCHANGED <<sessionVars, aiVars, agentVars, logVars, diffVars, dockerVars>>

InitConfig ==
    /\ env_TEST_NAME = ""
    /\ CacheStart
    /\ ValidationStart
    /\ run_tests_multiple_times = 1
    /\ RunStart
    /\ config = NoConfig
    /\ CallStart
    /\ AgentStart
    /\ LoggerStart
    /\ DiffStart
    /\ args \in Namespaces
    /\ toml_config \in TomlConfigs
    /\ built = NotBuilt
    /\ DockerStart

NextConfig == FromArgsWithDefaults

SpecConfig == InitConfig /\ [][NextConfig]_vars

\* C19: in the configuration from_args_with_defaults returns, every field
\* holds the command-line value when that value is not None, the falsy
\* values False, 0 and '' included, and the TOML default when it is None.
C19_ArgsOverrideDefaults ==
    built.status = "config" =>
        \A k \in FieldNames :
            /\ DictHas(built.fields, k)
            /\ DictGet(built.fields, k) =
                  IF DictGet(args, k) # None THEN DictGet(args, k)
                  ELSE DictGet(toml_config, k)

\* a configuration was built from a command line that gave 0 and '' against
\* the defaults 5 and 'default' and did not give strict_coverage
C19_Witness ==
    /\ built.status = "config"
    /\ DictGet(args, "max_iterations") = <<"int", 0>>
    /\ DictGet(args, "additional_instructions") = <<"str", "">>
    /\ DictGet(args, "strict_coverage") = None
    /\ DictGet(toml_config, "max_iterations") = <<"int", 5>>
    /\ DictGet(built.fields, "max_iterations") = <<"int", 0>>
    /\ DictGet(built.fields, "additional_instructions") = <<"str", "">>
    /\ DictGet(built.fields, "strict_coverage") = <<"bool", TRUE>>

-----------------------------------------------------------------------------
(* AICaller.call_model under the conditional_retry decorator               *)
(*                                                                         *)
(* One call of call_model makes one attempt of the decorated function, or  *)
(* up to MODEL_RETRIES attempts under tenacity's retry when enable_retry   *)
(* is set.  retry(stop=stop_after_attempt(MODEL_RETRIES), wait=...) is     *)
(* built without reraise, so when the last attempt fails it raises         *)
(* RetryError holding the failed attempt, not the attempt's exception.     *)

MODEL_RETRIES == 3

\* the longest streamed response, in chunks
MaxChunks == 2

Models == {"test-model", "o1-preview", "o1"}

UserMessageOnlyModels == {"o1-preview"}

NoSupportStreamingModels == {"o1"}

\* a text is the sequence of its characters, '' is <<>>
SystemTexts == { <<>>, <<"s">>, <<" ", "s">> }

UserTexts == { <<"u">>, <<"u", "\n">> }

\* prompt dictionaries with and without the 'system' and the 'user' key
CallPrompts ==
    { sys \o usr : sys \in { <<>> } \cup { << <<"system", t>> >> : t \in SystemTexts },
                   usr \in { <<>> } \cup { << <<"user", t>> >> : t \in UserTexts } }

\* the characters str.strip() removes from both ends
Whitespace == {" ", "\n", "\t", "\r"}

RECURSIVE LStrip(_)
LStrip(text) ==
    IF text # <<>> /\ Head(text) \in Whitespace THEN LStrip(Tail(text)) ELSE text

RECURSIVE RStrip(_)
RStrip(text) ==
    IF text # <<>> /\ text[Len(text)] \in Whitespace
      THEN RStrip(SubSeq(text, 1, Len(text) - 1))
      ELSE text

StripNothing(text) == text

\* str.strip()
Strip(text) == LStrip(RStrip(text))

MissingKeysError == <<"KeyError", "The prompt dictionary must contain 'system' and 'user' keys.">>

CompletionError == <<"Exception", "completion failed">>

StreamingError == <<"Exception", "stream broke">>

\* model_response["choices"] when the builder gave None
NoneSubscriptError == <<"TypeError", "'NoneType' object is not subscriptable">>

\* the chunks of a whole response; chunk i carries the content i
ResponseChunks == [i \in 1..MaxChunks |-> i]

\* what litellm.completion does
CompletionOutcomes == {"ok", "raises"}

\* what iterating the streamed response does: it yields every chunk, or it
\* raises after having yielded 'received' chunks
StreamOutcomes ==
    { [outcome |-> "ok", received |-> MaxChunks] } \cup
    { [outcome |-> "raises", received |-> k] : k \in 0..(MaxChunks - 1) }

Returned3(content) == [status |-> "returned", value |-> <<content, 2, 10>>]

Raises(exception) == [status |-> "raised", value |-> exception]

\* tenacity.RetryError(last_attempt)
RetryError(exception) == <<"RetryError", exception>>

\* not ("system" not in prompt or "user" not in prompt)
HasRequiredKeys(prompt) == DictHas(prompt, "system") /\ DictHas(prompt, "user")

\* (prompt["system"] + "\n" + prompt["user"]).strip()
CombinedContent(prompt) ==
    Strip(DictGet(prompt, "system") \o <<"\n">> \o DictGet(prompt, "user"))

\* the messages built from the prompt
BuildMessages(prompt) ==
    IF DictGet(prompt, "system") = <<>>
      THEN << [role |-> "user", content |-> DictGet(prompt, "user")] >>
      ELSE IF model \in UserMessageOnlyModels
             THEN << [role |-> "user", content |-> CombinedContent(prompt)] >>
             ELSE << [role |-> "system", content |-> DictGet(prompt, "system")],
                     [role |-> "user", content |-> DictGet(prompt, "user")] >>

\* stream is switched off for the models that do not support it
Streams == stream /\ model \notin NoSupportStreamingModels

\* the chunks appended before the loop ended
Chunks(stream_outcome) == SubSeq(ResponseChunks, 1, stream_outcome.received)

\* litellm.stream_chunk_builder(chunks, messages=messages): None for no
\* chunks, else the response with the content of the chunks
StreamChunkBuilder(chunks) == IF chunks = <<>> THEN None ELSE <<chunks>>

ReraisesAlways == TRUE

\* if self.enable_retry: raise e
Reraises == enable_retry

\* the streaming branch: what it returns or raises
Streamed(stream_outcome) ==
    IF stream_outcome.outcome = "raises" /\ Reraises THEN Raises(StreamingError)
    ELSE LET model_response == StreamChunkBuilder(Chunks(stream_outcome)) IN
           IF model_response = None THEN Raises(NoneSubscriptError)
           ELSE Returned3(model_response[1])

\* one execution of the body of call_model: what it returns or raises
Body(completion_outcome, stream_outcome) ==
    IF ~HasRequiredKeys(call_prompt) THEN Raises(MissingKeysError)
    ELSE IF completion_outcome = "raises" THEN Raises(CompletionError)
    ELSE IF Streams THEN Streamed(stream_outcome)
    ELSE Returned3(ResponseChunks)

\* the body reaches litellm.completion only past the key check
Invokes == HasRequiredKeys(call_prompt)

RetriesAlways == TRUE

\* the wrapper goes through tenacity's retry unless not self.enable_retry
Retries == enable_retry

StopOneLate(attempts_made) == attempts_made >= MODEL_RETRIES + 1

\* stop_after_attempt(MODEL_RETRIES)
Stop(attempts_made) == attempts_made >= MODEL_RETRIES

\* ai_caller.call_model(prompt, stream): the wrapper is entered
CallModel(prompt, s) ==
    /\ call_pc = "idle"
    /\ call_prompt' = prompt
    /\ stream' = s
    /\ call_pc' = "attempt"
    /\ attempt_number' = 0
    /\ completions' = <<>>
    /\ messages' = <<>>
    /\ call_result' = NoResult
    /\ UNCHANGED <<enable_retry, model>>
    /\ UNCHANGED <<sessionVars, cfgVars, agentVars, logVars, diffVars, dockerVars>>

\* one attempt: func(self, *args, **kwargs), and what the wrapper does with
\* its result
Attempt(completion_outcome, stream_outcome) ==
    /\ call_pc = "attempt"
    /\ attempt_number' = attempt_number + 1
    /\ completions' =
          IF Invokes
            THEN Append(completions,
                        [completion |-> completion_outcome,
                         streamed |-> IF Streams /\ completion_outcome = "ok"
                                        THEN stream_outcome.outcome ELSE "none",
                         received |-> IF Streams /\ completion_outcome = "ok"
                                        THEN stream_outcome.received ELSE 0])
            ELSE completions
    /\ messages' = IF Invokes THEN BuildMessages(call_prompt) ELSE messages
    /\ LET r == Body(completion_outcome, stream_outcome) IN
         IF r.status = "returned" \/ ~Retries
           THEN call_result' = r /\ call_pc' = "done"
         ELSE IF Stop(attempt_number')
           THEN call_result' = Raises(RetryError(r.value)) /\ call_pc' = "done"
         ELSE UNCHANGED <<call_result, call_pc>>
    /\ UNCHANGED <<enable_retry, model, call_prompt, stream>>
    /\ UNCHANGED <<sessionVars, cfgVars, agentVars, logVars, diffVars, dockerVars>>

InitCall ==
    /\ env_TEST_NAME = ""
    /\ CacheStart
    /\ ValidationStart
    /\ run_tests_multiple_times = 1
    /\ RunStart
    /\ config = NoConfig
    /\ ConfigStart
    /\ AgentStart
    /\ LoggerStart
    /\ DiffStart
    /\ enable_retry \in BOOLEAN
    /\ model \in Models
    /\ call_prompt = <<>>
    /\ stream = TRUE
    /\ call_pc = "idle"
    /\ attempt_number = 0
    /\ completions = <<>>
    /\ messages = <<>>
    /\ call_result = NoResult
    /\ DockerStart

NextCall ==
    \/ \E prompt \in CallPrompts, s \in BOOLEAN : CallModel(prompt, s)
    \/ \E completion_outcome \in CompletionOutcomes, stream_outcome \in StreamOutcomes :
          Attempt(completion_outcome, stream_outcome)

SpecCall == InitCall /\ [][NextCall]_vars

\* C20: a call of call_model with a prompt that lacks the 'system' or the
\* 'user' key ends by raising KeyError("The prompt dictionary must contain
\* 'system' and 'user' keys.") and has not invoked litellm.completion.
C20_MissingKeysKeyError ==
    (call_pc = "done" /\ ~(DictHas(call_prompt, "system") /\ DictHas(call_prompt, "user"))) =>
        /\ call_result = Raises(MissingKeysError)
        /\ completions = <<>>

-----------------------------------------------------------------------------
(* CoverAgent.__init__: _validate_paths and _duplicate_test_file           *)
(*                                                                         *)
(* The file system holds the source file, the test file, the output file   *)
(* and the project root; an entry is absent, a file with its lines, or a   *)
(* directory.  The generator and the validator are recorded by the test    *)
(* file path they were constructed with.                                   *)

SourcePath == "app.py"
TestPath == "test_app.py"
OutputPath == "out.py"
ProjectRoot == "proj"

FsPaths == {SourcePath, TestPath, OutputPath, ProjectRoot}

Absent == [kind |-> "absent", content |-> <<>>]
Directory == [kind |-> "dir", content |-> <<>>]
File(content) == [kind |-> "file", content |-> content]

\* os.path.isfile, os.path.isdir
IsFile(path) == path \in DOMAIN fs /\ fs[path].kind = "file"
IsDir(path) == path \in DOMAIN fs /\ fs[path].kind = "dir"

FileNotFoundError(message) == <<"FileNotFoundError", message>>

SameFileError == <<"SameFileError", "are the same file">>

ValidatePathsTestFirst ==
    IF ~IsFile(config_paths.test_file_path)
      THEN FileNotFoundError("Test file not found at " \o config_paths.test_file_path)
    ELSE IF ~IsFile(config_paths.source_file_path)
      THEN FileNotFoundError("Source file not found at " \o config_paths.source_file_path)
    ELSE IF config_paths.project_root # "" /\ ~IsDir(config_paths.project_root)
      THEN FileNotFoundError("Project root not found at " \o config_paths.project_root)
    ELSE None

\* _validate_paths up to the creation of the test database: the exception
\* it raises, None when the paths are valid
ValidatePaths ==
    IF ~IsFile(config_paths.source_file_path)
      THEN FileNotFoundError("Source file not found at " \o config_paths.source_file_path)
    ELSE IF ~IsFile(config_paths.test_file_path)
      THEN FileNotFoundError("Test file not found at " \o config_paths.test_file_path)
    ELSE IF config_paths.project_root # "" /\ ~IsDir(config_paths.project_root)
      THEN FileNotFoundError("Project root not found at " \o config_paths.project_root)
    ELSE None

TestFilePathOriginal(paths) == paths.test_file_path

\* test_file_path=config.test_file_output_path, for the generator and the validator
TestFilePathUsed(paths) == paths.test_file_output_path

\* CoverAgent(config): the constructor as a whole
CoverAgentInit ==
    /\ agent.status = "none"
    /\ config_paths # NoPaths
    /\ LET e == ValidatePaths
           out == config_paths.test_file_output_path
           failed == [agent EXCEPT !.status = "raised", !.given_output_path = out]
       IN
         IF e # None
           THEN /\ agent' = [failed EXCEPT !.raised = e]
                /\ UNCHANGED <<fs, config_paths>>
         ELSE IF out # "" /\ out = config_paths.test_file_path
           \* shutil.copy of a file onto itself
           THEN /\ agent' = [failed EXCEPT !.raised = SameFileError, !.test_db = TRUE]
                /\ UNCHANGED <<fs, config_paths>>
         ELSE /\ fs' = IF out # ""
                         THEN [fs EXCEPT ![out] = fs[config_paths.test_file_path]]
                         ELSE fs
              /\ config_paths' =
                    IF out # "" THEN config_paths
                    ELSE [config_paths EXCEPT
                            !.test_file_output_path = config_paths.test_file_path]
              /\ agent' =
                    [status |-> "constructed", raised |-> None,
                     given_output_path |-> out, copied |-> (out # ""),
                     test_db |-> TRUE,
                     test_gen |-> [created |-> TRUE,
                                   test_file_path |-> TestFilePathUsed(config_paths')],
                     test_validator |-> [created |-> TRUE,
                                   test_file_path |-> TestFilePathUsed(config_paths')]]
    /\ UNCHANGED <<sessionVars, cfgVars, aiVars, logVars, diffVars, dockerVars>>

\* the generator and the validator write the test file they were given
ValidatorWrite(content) ==
    /\ agent.status = "constructed"
    /\ fs[agent.test_validator.test_file_path] # File(content)
    /\ fs' = [fs EXCEPT ![agent.test_validator.test_file_path] = File(content)]
    /\ UNCHANGED <<config_paths, agent>>
    /\ UNCHANGED <<sessionVars, cfgVars, aiVars, logVars, diffVars, dockerVars>>

InitAgent ==
    /\ env_TEST_NAME = ""
    /\ CacheStart
    /\ ValidationStart
    /\ run_tests_multiple_times = 1
    /\ RunStart
    /\ config = NoConfig
    /\ ConfigStart
    /\ CallStart
    /\ LoggerStart
    /\ DiffStart
    /\ \E s \in {Absent, File(<<"src">>)}, t \in {Absent, File(<<"t0">>)},
          o \in {Absent, File(<<"old">>)}, r \in {Absent, Directory} :
          fs = (SourcePath :> s) @@ (TestPath :> t) @@ (OutputPath :> o) @@ (ProjectRoot :> r)
    /\ \E o \in {"", TestPath, OutputPath}, r \in {"", ProjectRoot} :
          config_paths = [source_file_path |-> SourcePath, test_file_path |-> TestPath,
                          test_file_output_path |-> o, project_root |-> r]
    /\ agent = NoAgent
    /\ DockerStart

NextAgent ==
    \/ CoverAgentInit
    \/ \E content \in TestContents : ValidatorWrite(content)

SpecAgent == InitAgent /\ [][NextAgent]_vars

\* C21: the constructor raises FileNotFoundError for a missing source file
\* (checked first), a missing test file (checked second) or a non-empty
\* project root that is not a directory; then the test file is not copied
\* and no test database, generator or validator is created.
C21_MissingPathsRaise ==
    [][(agent.status = "none" /\ agent'.status # "none") =>
          LET noSource == fs[SourcePath].kind # "file"
              noTest == fs[TestPath].kind # "file"
              noRoot == config_paths.project_root # "" /\ fs[ProjectRoot].kind # "dir"
          IN
            /\ noSource =>
                  agent'.raised = <<"FileNotFoundError", "Source file not found at app.py">>
            /\ (~noSource /\ noTest) =>
                  agent'.raised = <<"FileNotFoundError", "Test file not found at test_app.py">>
            /\ (~noSource /\ ~noTest /\ noRoot) =>
                  agent'.raised = <<"FileNotFoundError", "Project root not found at proj">>
            /\ (noSource \/ noTest \/ noRoot) =>
                  /\ agent'.status = "raised"
                  /\ fs' = fs
                  /\ ~agent'.copied
                  /\ ~agent'.test_db
                  /\ ~agent'.test_gen.created
                  /\ ~agent'.test_validator.created]_vars

\* the constructor was given an output path, found the source file but not
\* the test file, and raised for the test file without creating anything
C21_Witness ==
    /\ agent.status = "raised"
    /\ agent.raised = <<"FileNotFoundError", "Test file not found at test_app.py">>
    /\ fs[SourcePath].kind = "file"
    /\ fs[TestPath].kind = "absent"
    /\ agent.given_output_path = OutputPath
    /\ fs[OutputPath] = File(<<"old">>)
    /\ ~agent.test_db

\* C22: an agent constructed with a non-empty test_file_output_path copied
\* the test file there, its generator and validator work on that copy, and
\* the file at test_file_path is never modified; constructed with an empty
\* one, its output path is test_file_path.
C22_OriginalNeverModified ==
    [][agent'.status = "constructed" =>
          /\ agent'.given_output_path # "" =>
                /\ fs'[TestPath] = fs[TestPath]
                /\ agent'.test_gen.test_file_path = agent'.given_output_path
                /\ agent'.test_validator.test_file_path = agent'.given_output_path
                /\ agent'.given_output_path # config_paths'.test_file_path
                /\ agent.status = "none" => fs'[agent'.given_output_path] = fs[TestPath]
          /\ agent'.given_output_path = "" =>
                config_paths'.test_file_output_path = config_paths'.test_file_path]_vars

\* the copy at the output path was rewritten after construction while the
\* original test file still holds what it held
C22_Witness ==
    /\ agent.status = "constructed"
    /\ agent.given_output_path = OutputPath
    /\ agent.copied
    /\ fs[OutputPath] = File(<<"t0", "t1">>)
    /\ fs[TestPath] = File(<<"t0">>)

-----------------------------------------------------------------------------
(* The diff coverage calculator                                            *)
(*                                                                         *)
(* A coverage report maps a file to its covered and missed lines; the      *)
(* version-control diff maps a file to its changed lines.  Aggregate       *)
(* coverage is kept in percent, 100 standing for 1.0.                      *)

MaxLine == 2

Lines == 1..MaxLine

ReportFiles == {"a.py", "b.py"}

\* covered and missed lines of one file: disjoint, not both empty
FileCoverages ==
    { [covered |-> c, missed |-> ms] : c \in SUBSET Lines, ms \in SUBSET Lines } \
    { fc \in [covered : SUBSET Lines, missed : SUBSET Lines] :
         fc.covered \cap fc.missed # {} \/ fc.covered \cup fc.missed = {} }

CoverageReports == UNION { [D -> FileCoverages] : D \in SUBSET ReportFiles }

\* changed_line_ranges: a file of the diff may come with no changed line
ChangedLineRanges == UNION { [D -> SUBSET Lines] : D \in SUBSET ReportFiles }

IncludedAnyDiffFile(report, changed) == DOMAIN report \cap DOMAIN changed

\* the files present in both the diff and the report that have changed lines
Included(report, changed) == { f \in DOMAIN report \cap DOMAIN changed : changed[f] # {} }

\* CoverageData of a file recomputed on its changed lines
Restricted(data, changed_in_file) ==
    [covered |-> data.covered \cap changed_in_file,
     missed |-> data.missed \cap changed_in_file]

RECURSIVE SumOver(_, _)
SumOver(S, count) ==
    IF S = {} THEN 0
    ELSE LET f == CHOOSE x \in S : TRUE
         IN  Cardinality(count[f]) + SumOver(S \ {f}, count)

\* covered changed lines over all changed lines of the included files, 1.0
\* when no line changed
Aggregate(included) ==
    LET covered == SumOver(DOMAIN included, [f \in DOMAIN included |-> included[f].covered])
        total == covered + SumOver(DOMAIN included, [f \in DOMAIN included |-> included[f].missed])
    IN  IF total = 0 THEN 100 ELSE (100 * covered) \div total

DiffCoverage(report, changed) ==
    LET included == [f \in Included(report, changed) |-> Restricted(report[f], changed[f])]
    IN  [computed |-> TRUE, total |-> Aggregate(included), files |-> included]

ComputeDiffCoverage ==
    /\ ~diff_report.computed
    /\ diff_report' = DiffCoverage(coverage_report, changed_lines)
    /\ UNCHANGED <<coverage_report, changed_lines>>
    /\ UNCHANGED <<sessionVars, cfgVars, aiVars, agentVars, logVars, dockerVars>>

InitDiff ==
    /\ env_TEST_NAME = ""
    /\ CacheStart
    /\ ValidationStart
    /\ run_tests_multiple_times = 1
    /\ RunStart
    /\ config = NoConfig
    /\ ConfigStart
    /\ CallStart
    /\ AgentStart
    /\ LoggerStart
    /\ coverage_report \in CoverageReports
    /\ changed_lines \in ChangedLineRanges
    /\ diff_report = NoDiffReport
    /\ DockerStart

NextDiff == ComputeDiffCoverage

SpecDiff == InitDiff /\ [][NextDiff]_vars

NoLinesChanged == \A f \in DOMAIN changed_lines : changed_lines[f] = {}

\* C23: the diff report of any coverage report, when no line differs from
\* the comparison branch, has aggregate coverage 1.0 and an empty file
\* mapping; a file with no changed line is in no diff report.
C23_NoChangeFullCoverage ==
    diff_report.computed =>
        /\ NoLinesChanged =>
              (diff_report.total = 100 /\ DOMAIN diff_report.files = {})
        /\ \A f \in DOMAIN diff_report.files :
              f \in DOMAIN changed_lines /\ changed_lines[f] # {}

\* a report with missed lines in two files was restricted to a diff that
\* lists one of them without any changed line
C23_Witness ==
    /\ diff_report.computed
    /\ NoLinesChanged
    /\ DOMAIN changed_lines = {"a.py"}
    /\ DOMAIN coverage_report = ReportFiles
    /\ coverage_report["a.py"].missed # {}
    /\ diff_report.total = 100
    /\ DOMAIN diff_report.files = {}

-----------------------------------------------------------------------------
(* The response store: keys, the files hash and damaged store files        *)

HASH_DISPLAY_LENGTH == 12

\* prompt_hash[:self.HASH_DISPLAY_LENGTH]: the first characters of the
\* digest, a shorter string than the digest of 64 characters
HashPrefix(prompt_hash) == <<prompt_hash[1], prompt_hash[2], HASH_DISPLAY_LENGTH>>

\* C24: after record_response in record mode the store holds the entry of
\* the prompt under the first HASH_DISPLAY_LENGTH characters of the SHA-256
\* hex digest of the prompt.
C24_TruncatedKey ==
    (/\ last.op = "record"
     /\ mgr[last.m].record_mode
     /\ ResponseFilePath(last.m) \in DOMAIN files) =>
        DictHas(files[ResponseFilePath(last.m)].doc, HashPrefix(PromptHash(last.prompt)))

-----------------------------------------------------------------------------
(* CustomLogger.get_logger                                                 *)
(*                                                                         *)
(* The logging module keeps one logger per name; a logger has a level, a   *)
(* list of handlers and the propagate flag.                                *)

\* log_levels: the names and the numeric levels of the logging module
LogLevelNames == <<"DEBUG", "INFO", "WARNING", "ERROR", "CRITICAL">>

LogLevelNumber(level_name) == 10 * (CHOOSE i \in 1..Len(LogLevelNames) : LogLevelNames[i] = level_name)

ValidLevels == { LogLevelNames[i] : i \in 1..Len(LogLevelNames) }

\* values of the LOG_LEVEL environment variable; the variable holds <<value>>
\* when it is set and None when it is not
EnvLogLevels == {"", "DEBUG", "INFO", "warning", "CRITICAL", "DEBU", "verbose"}

\* str.upper() on the values of the model
Upper(s) ==
    CASE s = "warning" -> "WARNING"
      [] s = "verbose" -> "VERBOSE"
      [] OTHER -> s

LoggerNames == {"cover_agent.CoverAgent", "cover_agent.record_replay_manager", "test_logger"}

\* os.environ.get("LOG_LEVEL", "")
EnvGet == IF env_LOG_LEVEL = None THEN "" ELSE env_LOG_LEVEL[1]

\* log_levels.get(os.environ.get("LOG_LEVEL", "").upper(), logging.DEBUG)
LogLevel ==
    IF Upper(EnvGet) \in ValidLevels THEN LogLevelNumber(Upper(EnvGet))
    ELSE LogLevelNumber("DEBUG")

\* logging.getLogger(name): the registered logger, or a new one
GetRegistered(name) ==
    IF name \in DOMAIN loggers THEN loggers[name]
    ELSE [level |-> 0, handlers |-> <<>>, propagate |-> TRUE]

\* the handlers added to a logger that has none
NewHandlers(generate_logs) ==
    (IF generate_logs
       THEN << [kind |-> "file", path |-> "run.log", level |-> LogLevelNumber("INFO")] >>
       ELSE <<>>)
    \o << [kind |-> "stream", path |-> "", level |-> LogLevel] >>

\* CustomLogger.get_logger(name, generate_logs)
GetLogger(name, generate_logs) ==
    /\ LET registered == GetRegistered(name)
           configured ==
             IF registered.handlers = <<>>
               THEN [level |-> LogLevel, handlers |-> NewHandlers(generate_logs),
                     propagate |-> FALSE]
               ELSE [registered EXCEPT !.level = LogLevel]
       IN  loggers' = (name :> configured) @@ loggers
    /\ logger' = [status |-> "returned", name |-> name, raised |-> None]
    /\ UNCHANGED env_LOG_LEVEL
    /\ UNCHANGED <<sessionVars, cfgVars, aiVars, agentVars, diffVars, dockerVars>>

InitLogger ==
    /\ env_TEST_NAME = ""
    /\ CacheStart
    /\ ValidationStart
    /\ run_tests_multiple_times = 1
    /\ RunStart
    /\ config = NoConfig
    /\ ConfigStart
    /\ CallStart
    /\ AgentStart
    /\ DiffStart
    /\ env_LOG_LEVEL \in { <<v>> : v \in EnvLogLevels } \cup {None}
    /\ loggers = <<>>
    /\ logger = NoLogger
    /\ DockerStart

NextLogger == \E name \in LoggerNames, generate_logs \in BOOLEAN : GetLogger(name, generate_logs)

SpecLogger == InitLogger /\ [][NextLogger]_vars

\* C25: get_logger called while LOG_LEVEL is set to a value that is not one
\* of DEBUG, INFO, WARNING, ERROR, CRITICAL raises ValueError.
C25_InvalidLevelRaises ==
    (/\ logger.status # "none"
     /\ env_LOG_LEVEL # None
     /\ EnvGet # ""
     /\ Upper(EnvGet) \notin ValidLevels) =>
        /\ logger.status = "raised"
        /\ logger.raised[1] = "ValueError"

\* the call recorded in last' reached _get_response_file_path: record_response
\* in record mode, load_recorded_response and call_model in replay mode
UsesStore ==
    /\ test_file' = test_file
    /\ last' # last \/ files' # files \/ mgr' # mgr
    /\ mgr'[last'.m].files_hash # None
    /\ \/ last'.op = "record" /\ mgr[last'.m].record_mode
       \/ last'.op \in {"load", "call_model"} /\ ~mgr[last'.m].record_mode

C27_FilesHashCached ==
    [][/\ \A m \in Managers :
             (mgr[m].files_hash # None /\ mgr'[m].files_hash # None) =>
                 mgr'[m].files_hash = mgr[m].files_hash
       /\ (files' # files /\ mgr[last'.m].files_hash # None) =>
             \A path \in DOMAIN files' :
                 (path \notin DOMAIN files \/ files'[path] # files[path]) =>
                     path[4] = mgr[last'.m].files_hash]_vars

\* the record manager wrote two entries into the store named by the hash it
\* computed first, and the test file on disk has another content now
C27_Witness ==
    /\ last.op = "record"
    /\ last.m = "rec"
    /\ mgr["rec"].files_hash # None
    /\ mgr["rec"].files_hash # FreshFilesHash
    /\ DOMAIN files = { ResponseFilePath("rec") }
    /\ Len(files[ResponseFilePath("rec")].doc) = 2

\* what a damaged store file still shows of an entry recorded earlier
OldItems ==
    << <<Sha256Hex("{'system': 's', 'user': 'a'}"),
         [prompt |-> << <<"system", "s">>, <<"user", "a">> >>, response |-> "r0",
          prompt_tokens |-> 1, completion_tokens |-> 1,
          files_hash |-> Sha256Hex(Sha256Hex(SourceContent) \o Sha256Hex(<<"t0">>))]>> >>

\* store files that do not hold a mapping: text that is not YAML, a YAML
\* sequence, an empty file
DamagedContents ==
    { [kind |-> "invalid", doc |-> OldItems], [kind |-> "sequence", doc |-> OldItems],
      Truncated }

\* the store of the files as they are when the session starts
InitialStorePath == <<BaseDir, TestName, "_responses_", FreshFilesHash, ".yml">>

\* a session that finds a damaged store file in the responses folder
InitDamaged ==
    /\ env_TEST_NAME = ""
    /\ test_file = <<"t0">>
    /\ mgr = [m \in Managers |->
                [record_mode |-> (m = "rec"), base_dir |-> BaseDir,
                 files_hash |-> None]]
    /\ dirs = {BaseDir}
    /\ \E content \in DamagedContents : files = (InitialStorePath :> content)
    /\ last = NoCall
    /\ recorded = {}
    /\ pc = "idle"
    /\ pending = NoPending
    /\ ConfigStart
    /\ CallStart
    /\ AgentStart
    /\ LoggerStart
    /\ DiffStart
    /\ ValidationStart
    /\ run_tests_multiple_times = 1
    /\ RunStart
    /\ config = NoConfig
    /\ DockerStart

SpecDamaged == InitDamaged /\ [][Next]_vars

\* C28: record_response in record mode on a store file that is not valid
\* YAML or does not hold a mapping raises nothing and leaves the store a
\* mapping that holds exactly the new entry.
C28_DamagedStoreReplaced ==
    [][(/\ last'.op = "record"
        /\ last' # last \/ files' # files
        /\ mgr[last'.m].record_mode
        /\ ResponseFilePath(last'.m) \in DOMAIN files
        /\ files[ResponseFilePath(last'.m)].kind # "mapping") =>
          LET store == files'[ResponseFilePath(last'.m)] IN
            /\ last'.raised = ""
            /\ store.kind = "mapping"
            /\ Len(store.doc) = 1
            /\ store.doc[1][1] = PromptHash(last'.prompt)
            /\ store.doc[1][2].prompt = last'.prompt
            /\ \E r \in recorded' :
                  /\ r.path = ResponseFilePath(last'.m)
                  /\ r.prompt = last'.prompt
                  /\ r.result = <<store.doc[1][2].response, store.doc[1][2].prompt_tokens,
                                  store.doc[1][2].completion_tokens>>]_vars

\* the store was found damaged and holds, after one record_response, the
\* mapping with the entry of the recorded prompt alone
C28_Witness ==
    /\ last.op = "record"
    /\ last.m = "rec"
    /\ last.raised = ""
    /\ last.prompt = << <<"system", "s">>, <<"user", "ab">> >>
    /\ Cardinality(recorded) = 1
    /\ files[InitialStorePath].kind = "mapping"
    /\ Len(files[InitialStorePath].doc) = 1
    /\ files[InitialStorePath].doc[1][2].response = "r2"

\* C29: load_recorded_response in replay mode returns None, raises nothing
\* and leaves every store file as it is when the store file does not exist
\* or does not parse as a mapping.
C29_DamagedStoreMisses ==
    [][(/\ last'.op = "load"
        /\ last' # last \/ mgr' # mgr
        /\ ~mgr[last'.m].record_mode
        /\ mgr'[last'.m].files_hash # None
        /\ \/ ResponseFilePath(last'.m) \notin DOMAIN files
           \/ files[ResponseFilePath(last'.m)].kind # "mapping") =>
          /\ last'.result = None
          /\ last'.raised = ""
          /\ files' = files]_vars

\* the replay manager looked up, in a store holding a YAML sequence, the
\* prompt whose entry the sequence shows, and got None
C29_Witness ==
    /\ last.op = "load"
    /\ last.m = "rep"
    /\ last.prompt = << <<"system", "s">>, <<"user", "a">> >>
    /\ last.result = None
    /\ last.raised = ""
    /\ mgr["rep"].files_hash = FreshFilesHash
    /\ files[InitialStorePath] = [kind |-> "sequence", doc |-> OldItems]

\* the attempt just made returned: the prompt has its keys, the completion
\* came back and, under retry, the stream was read to its end
AttemptReturned ==
    /\ Len(completions') = Len(completions) + 1
    /\ completions'[Len(completions')].completion = "ok"
    /\ completions'[Len(completions')].streamed # "raises"

\* C30: with enable_retry set, one call of call_model makes at most
\* MODEL_RETRIES attempts; the first attempt that returns ends the call with
\* its result, a failed attempt is followed by another while fewer than
\* MODEL_RETRIES were made, and the failure of attempt MODEL_RETRIES ends
\* the call by raising.
C30_BoundedRetry ==
    /\ [](enable_retry => attempt_number <= 3)
    /\ [][(enable_retry /\ call_pc = "attempt" /\ attempt_number' # attempt_number) =>
             /\ attempt_number' = attempt_number + 1
             /\ AttemptReturned =>
                   /\ call_pc' = "done"
                   /\ call_result'.status = "returned"
             /\ (~AttemptReturned /\ attempt_number' < 3) =>
                   /\ call_pc' = "attempt"
                   /\ call_result' = NoResult
             /\ (~AttemptReturned /\ attempt_number' = 3) =>
                   /\ call_pc' = "done"
                   /\ call_result'.status = "raised"]_vars
    /\ [][call_pc = "done" =>
             (attempt_number' = attempt_number /\ call_result' = call_result)]_vars

\* the third attempt of a call was the first to return, after the completion
\* failed twice
C30_Witness ==
    /\ enable_retry
    /\ call_pc = "done"
    /\ attempt_number = 3
    /\ call_result.status = "returned"
    /\ Len(completions) = 3
    /\ completions[1].completion = "raises"
    /\ completions[2].completion = "raises"
    /\ completions[3].completion = "ok"

-----------------------------------------------------------------------------
(* AICaller.call_model: one attempt without retry, the messages, and       *)
(* exceptions while streaming                                              *)

\* C31: with enable_retry=False a call of call_model with a prompt that has
\* its keys invokes litellm.completion exactly once, and an exception raised
\* by the completion ends the call as that same exception: no wrapping and
\* no second attempt.
C31_NoRetrySingleAttempt ==
    ~enable_retry =>
        /\ Len(completions) <= 1
        /\ (call_pc = "done" /\ DictHas(call_prompt, "system") /\ DictHas(call_prompt, "user")) =>
              /\ Len(completions) = 1
              /\ attempt_number = 1
              /\ completions[1].completion = "raises" =>
                    call_result = [status |-> "raised", value |-> CompletionError]

\* without retry the completion raised and the call ended with its exception
C31_Witness ==
    /\ ~enable_retry
    /\ call_pc = "done"
    /\ Len(completions) = 1
    /\ completions[1].completion = "raises"
    /\ call_result = [status |-> "raised", value |-> CompletionError]

\* the system prompt and the user prompt of the call being made
SystemPrompt == DictGet(call_prompt, "system")
UserPrompt == DictGet(call_prompt, "user")

\* c is text without the whitespace at its two ends
IsStripped(c, text) ==
    \E i \in 1..(Len(text) + 1), j \in 0..Len(text) :
        /\ c = SubSeq(text, i, j)
        /\ \A k \in 1..Len(text) : (k < i \/ k > j) => text[k] \in {" ", "\n", "\t", "\r"}
        /\ c # <<>> => (c[1] \notin {" ", "\n", "\t", "\r"}
                          /\ c[Len(c)] \notin {" ", "\n", "\t", "\r"})

\* the messages of the two cases that do not depend on the combination
MessagesOfPlainCases ==
    /\ SystemPrompt = <<>> =>
          messages = << [role |-> "user", content |-> UserPrompt] >>
    /\ (SystemPrompt # <<>> /\ model \notin UserMessageOnlyModels) =>
          messages = << [role |-> "system", content |-> SystemPrompt],
                        [role |-> "user", content |-> UserPrompt] >>

\* C32 as stated: the message list sent is a single user message holding
\* only the user prompt when the system prompt is empty, a single user
\* message holding system + newline + user when the model is a
\* user-message-only model, and otherwise a system message followed by a
\* user message.
C32_MessagesAsStated ==
    messages # <<>> =>
        /\ MessagesOfPlainCases
        /\ (SystemPrompt # <<>> /\ model \in UserMessageOnlyModels) =>
              messages = << [role |-> "user",
                             content |-> SystemPrompt \o <<"\n">> \o UserPrompt] >>

\* C32, amended: as stated, except that for a user-message-only model the
\* single user message holds system + newline + user with the whitespace
\* at its two ends removed.
C32_MessagesStripped ==
    messages # <<>> =>
        /\ MessagesOfPlainCases
        /\ (SystemPrompt # <<>> /\ model \in UserMessageOnlyModels) =>
              /\ Len(messages) = 1
              /\ messages[1].role = "user"
              /\ IsStripped(messages[1].content, SystemPrompt \o <<"\n">> \o UserPrompt)

\* a user-message-only model was sent a system prompt that starts with a
\* blank and a user prompt that ends with a newline, as one user message
C32_Witness ==
    /\ model \in UserMessageOnlyModels
    /\ call_pc = "done"
    /\ DictHas(call_prompt, "system") /\ DictHas(call_prompt, "user")
    /\ SystemPrompt = <<" ", "s">>
    /\ UserPrompt = <<"u", "\n">>
    /\ messages = << [role |-> "user", content |-> <<"s", "\n", "u">>] >>

\* the attempt just made streamed the response and the stream raised
StreamBroke ==
    /\ call_pc = "attempt"
    /\ Len(completions') = Len(completions) + 1
    /\ completions'[Len(completions')].streamed = "raises"

\* the chunks the attempt just made had received when the stream raised
ReceivedBefore == SubSeq(ResponseChunks, 1, completions'[Len(completions')].received)

\* with retry, an exception while the response is streamed fails the
\* attempt: another attempt follows, or the call ends raising after the last
ReraisedUnderRetry ==
    (enable_retry /\ StreamBroke) =>
        /\ attempt_number' < 3 => (call_pc' = "attempt" /\ call_result' = NoResult)
        /\ attempt_number' = 3 =>
              /\ call_pc' = "done"
              /\ call_result' = [status |-> "raised",
                                 value |-> <<"RetryError", StreamingError>>]

\* C33 as stated: when an exception occurs while the streamed response is
\* consumed, with enable_retry=True it is re-raised so the call is retried,
\* and with enable_retry=False it is not propagated and the call returns the
\* response assembled from the chunks received before the exception.
C33_PartialResponseReturned ==
    /\ [][ReraisedUnderRetry]_vars
    /\ [][(~enable_retry /\ StreamBroke) =>
             /\ call_pc' = "done"
             /\ call_result' = [status |-> "returned", value |-> <<ReceivedBefore, 2, 10>>]]_vars

\* C33, amended: as stated when at least one chunk was received before the
\* exception; when none was, the call with enable_retry=False raises the
\* TypeError of subscripting the empty assembly, never the exception of the
\* stream.
C33_PartialResponseIfAnyChunk ==
    /\ [][ReraisedUnderRetry]_vars
    /\ [][(~enable_retry /\ StreamBroke) =>
             /\ call_pc' = "done"
             /\ ReceivedBefore # <<>> =>
                   call_result' = [status |-> "returned", value |-> <<ReceivedBefore, 2, 10>>]
             /\ ReceivedBefore = <<>> =>
                   call_result' = [status |-> "raised", value |-> NoneSubscriptError]]_vars

\* without retry the stream raised after one chunk and the call returned
\* the content of that chunk
C33_Witness ==
    /\ ~enable_retry
    /\ call_pc = "done"
    /\ Len(completions) = 1
    /\ completions[1].streamed = "raises"
    /\ completions[1].received = 1
    /\ call_result = [status |-> "returned", value |-> << <<1>>, 2, 10 >>]

-----------------------------------------------------------------------------
(* CoverAgent.run: the iteration count and the first round                 *)

\* C34: the iteration_count passed to finalize_test_generation is the number
\* of generate-and-validate rounds executed, when the loop ended by reaching
\* the target coverage and when it ended by exhausting max_iterations.
C34_CountIsRoundsPerformed ==
    (run_pc \in {"done", "exited"} /\ calls.finalize = 1) =>
        iteration_count = calls.rounds

\* C35: the target is checked only after a round: when run has left the
\* loop, at least one generate-and-validate round was executed if
\* max_iterations >= 1, also when the initial coverage already met the
\* desired coverage, and none if max_iterations = 0; the first loop test
\* starts a round whatever the coverage is.
C35_RoundBeforeTargetCheck ==
    /\ [](run_pc \in {"finalize", "done", "exited", "raised"} =>
            /\ config.max_iterations >= 1 => calls.rounds >= 1
            /\ config.max_iterations = 0 => calls.rounds = 0)
    /\ [][(run_pc = "loop" /\ run_pc' # "loop" /\ calls.rounds = 0
            /\ config.max_iterations >= 1) =>
             (run_pc' = "generate" /\ calls'.rounds = 1)]_vars

\* the coverage met the desired coverage from the start, and run returned
\* after one round
C35_Witness ==
    /\ run_pc = "done"
    /\ config.max_iterations >= 1
    /\ config.desired_coverage = 50
    /\ baseline = 50
    /\ calls = [init |-> 1, finalize |-> 1, rounds |-> 1]

-----------------------------------------------------------------------------
(* The validation state machine: the rolling baseline, the insertion       *)
(* point and the coverage artifact                                         *)

\* C36: over any sequence of validation attempts the baseline never
\* decreases: it changes only in a step that ends an attempt ACCEPTED, to
\* the strictly greater aggregate coverage of that attempt's report, and a
\* step that ends an attempt ROLLED_BACK leaves it unchanged.
C36_BaselineNeverDecreases ==
    [][/\ baseline' >= baseline
       /\ baseline' # baseline =>
             (state = "PASSED" /\ state' = "ACCEPTED" /\ outcome'.report.total = baseline')
       /\ (state' = "ACCEPTED" /\ state # "ACCEPTED") => baseline' > baseline
       /\ state' = "ROLLED_BACK" => baseline' = baseline]_vars

\* the second attempt was accepted and raised the baseline from 50 to 60,
\* after a first attempt that left it at 50
C36_Witness ==
    /\ attempts = 2
    /\ state = "ACCEPTED"
    /\ before.baseline = 50
    /\ baseline = 60
    /\ outcome.report = [readable |-> TRUE, total |-> 60]

\* C37: when the insertion point of a candidate is out of the test file's
\* bounds, validation fails fast: the attempt ends without the test command
\* having been started and with the test file unchanged.
C37_OutOfBoundsFailsFast ==
    [][(state = "PENDING" /\ state' # "PENDING"
        /\ candidate.insert_after \notin 0..Len(test_file)) =>
          /\ state' = "ROLLED_BACK"
          /\ test_file' = test_file
          /\ process' = "none"]_vars

\* C38: an attempt that ended with exit code 0 and without a readable
\* coverage report is ROLLED_BACK with the reason "coverage report
\* missing/unreadable" and the test file restored; an ACCEPTED attempt
\* always has a readable report.
C38_UnreadableReportRolledBack ==
    /\ (state \in {"ACCEPTED", "ROLLED_BACK"} /\ outcome.exit_code = 0
         /\ ~outcome.report.readable) =>
          /\ state = "ROLLED_BACK"
          /\ outcome.status = "FAIL"
          /\ outcome.reason = "coverage report missing/unreadable"
          /\ test_file = before.content
    /\ state = "ACCEPTED" => outcome.report.readable

\* the command exited 0, no report could be read, and the attempt was
\* rolled back with that reason
C38_Witness ==
    /\ state = "ROLLED_BACK"
    /\ runs = <<0>>
    /\ outcome.exit_code = 0
    /\ outcome.reason = "coverage report missing/unreadable"
    /\ test_file = before.content
    /\ baseline = before.baseline

-----------------------------------------------------------------------------
(* tests_integration/run_test_with_docker.py: run_test                     *)
(*                                                                         *)
(* run_test checks its arguments, builds or pulls the image, starts the    *)
(* container, copies the binary into it, runs the command in it and cleans *)
(* the container up.  sys.exit ends the process; an exception that nothing *)
(* catches leaves run_test.                                                *)

TestArgs ==
    [source_file_path : {"", "app.py"}, test_file_path : {"", "test_app.py"},
     test_command : {"", "pytest"}, dockerfile : {"", "Dockerfile"},
     docker_image : {"", "python:3.12"}, log_db_path : {"", "run.db"}]

\* what a call of the Docker SDK does
DockerOutcomes == {"ok", "error"}

\* exit codes of the command run in the container
CommandExitCodes == {0, 1, 2}

\* what clean_up_docker_container does: both calls succeed, container.stop()
\* raises, or container.remove() raises
CleanUpOutcomes == {"ok", "stop_error", "remove_error"}

\* the container after clean_up_docker_container
CleanedUp(cleanup) ==
    IF cleanup = "ok" THEN "removed"
    ELSE IF cleanup = "stop_error" THEN "running"
    ELSE "stopped"

\* sys.exit(status)
SysExit(status) == docker_pc' = "exited" /\ docker_exit' = status

\* run_test, lines 22-34: the required arguments
CheckTestArgs(a) ==
    /\ docker_pc = "idle"
    /\ test_args' = a
    /\ IF a.source_file_path = "" \/ a.test_file_path = "" \/ a.test_command = ""
         THEN SysExit(1)
       ELSE IF a.dockerfile = "" /\ a.docker_image = ""
         THEN SysExit(1)
       ELSE docker_pc' = "image" /\ UNCHANGED docker_exit
    /\ UNCHANGED container
    /\ UNCHANGED <<sessionVars, cfgVars, aiVars, agentVars, logVars, diffVars>>

\* build_or_pull_docker_image: a Docker error exits with status 1
BuildOrPullDockerImage(docker_outcome) ==
    /\ docker_pc = "image"
    /\ IF docker_outcome = "ok"
         THEN docker_pc' = "run" /\ UNCHANGED docker_exit
         ELSE SysExit(1)
    /\ UNCHANGED <<test_args, container>>
    /\ UNCHANGED <<sessionVars, cfgVars, aiVars, agentVars, logVars, diffVars>>

\* run_docker_container: client.containers.run starts the container, or
\* raises before a container exists
RunDockerContainer(docker_outcome) ==
    /\ docker_pc = "run"
    /\ IF docker_outcome = "ok"
         THEN container' = "running" /\ docker_pc' = "copy" /\ UNCHANGED docker_exit
         ELSE SysExit(1) /\ UNCHANGED container
    /\ UNCHANGED test_args
    /\ UNCHANGED <<sessionVars, cfgVars, aiVars, agentVars, logVars, diffVars>>

\* copy_file_to_docker_container: nothing catches the error of open or of
\* put_archive, it leaves run_test
CopyFileToDockerContainer(docker_outcome) ==
    /\ docker_pc = "copy"
    /\ docker_pc' = IF docker_outcome = "ok" THEN "exec" ELSE "raised"
    /\ UNCHANGED <<test_args, container, docker_exit>>
    /\ UNCHANGED <<sessionVars, cfgVars, aiVars, agentVars, logVars, diffVars>>

\* run_command_in_docker_container: a non-zero exit code cleans up and
\* exits with it; a DockerException, of the exec calls or of the clean-up,
\* exits with status 1
RunCommandInDockerContainer(docker_outcome, exit_code, cleanup) ==
    /\ docker_pc = "exec"
    /\ IF docker_outcome = "error"
         THEN SysExit(1) /\ UNCHANGED container
       ELSE IF exit_code # 0
         THEN /\ container' = CleanedUp(cleanup)
              /\ SysExit(IF cleanup = "ok" THEN exit_code ELSE 1)
       ELSE docker_pc' = "cleanup" /\ UNCHANGED <<container, docker_exit>>
    /\ UNCHANGED test_args
    /\ UNCHANGED <<sessionVars, cfgVars, aiVars, agentVars, logVars, diffVars>>

\* run_test, line 86: clean_up_docker_container stops and removes the
\* container; its exception leaves run_test
CleanUpDockerContainer(cleanup) ==
    /\ docker_pc = "cleanup"
    /\ container' = CleanedUp(cleanup)
    /\ docker_pc' = IF cleanup = "ok" THEN "returned" ELSE "raised"
    /\ UNCHANGED <<test_args, docker_exit>>
    /\ UNCHANGED <<sessionVars, cfgVars, aiVars, agentVars, logVars, diffVars>>

InitDocker ==
    /\ env_TEST_NAME = ""
    /\ CacheStart
    /\ ValidationStart
    /\ run_tests_multiple_times = 1
    /\ RunStart
    /\ config = NoConfig
    /\ ConfigStart
    /\ CallStart
    /\ AgentStart
    /\ LoggerStart
    /\ DiffStart
    /\ DockerStart

NextDocker ==
    \/ \E a \in TestArgs : CheckTestArgs(a)
    \/ \E docker_outcome \in DockerOutcomes : BuildOrPullDockerImage(docker_outcome)
    \/ \E docker_outcome \in DockerOutcomes : RunDockerContainer(docker_outcome)
    \/ \E docker_outcome \in DockerOutcomes : CopyFileToDockerContainer(docker_outcome)
    \/ \E docker_outcome \in DockerOutcomes, exit_code \in CommandExitCodes,
          cleanup \in CleanUpOutcomes :
            RunCommandInDockerContainer(docker_outcome, exit_code, cleanup)
    \/ \E cleanup \in CleanUpOutcomes : CleanUpDockerContainer(cleanup)

SpecDocker == InitDocker /\ [][NextDocker]_vars

\* C39: once run_test has started a container, the container is stopped and
\* removed when run_test has returned or the process has ended: after a
\* successful command, after a command with a non-zero exit code, and after
\* a Docker error while the binary is copied or the command is executed.
C39_ContainerCleanedUp ==
    (docker_pc \in {"returned", "exited", "raised"} /\ container # "none") =>
        container = "removed"

====
